---------------------------- MODULE Spec2Model ----------------------------
(*
  Model of the stream handling of ObsPyck's util.py:

    merge_check_and_cleanup_streams   (src/util.py 456-601)
    cleanup_streams                   (src/util.py 604-635)

  A trace is a record: its identity (network, station, channel), the sample
  interval it covers (starttime..endtime, one sample per time unit), whether
  its data holds masked samples, whether samples of it were interpolated,
  the last detrend applied to it and the metadata attached to its stats.
  A group (an obspy Stream) is a sequence of traces, the collection
  (`streams`) a sequence of groups.  The warning text is the sequence of the
  diagnostics appended to it, the merge-hint text the sequence of hints it
  holds (the empty sequence is the empty string).
*)
EXTENDS Integers, Sequences, FiniteSets, TLC

\* ---------------------------------------------------------------- bounds

\* most traces in a collection passed to a call
MaxTraces == 4
\* most groups in a collection passed to a call
MaxGroups == 2

\* ------------------------------------------------------------- constants

\* src/util.py:481  "max([gap[-1] for gap in st.getGaps()]) < 5"
GapLimit == 5

\* ------------------------------------------------------- sequence helpers

Last(s) == s[Len(s)]

RECURSIVE Reverse(_)
Reverse(s) == IF s = <<>> THEN <<>> ELSE Append(Reverse(Tail(s)), Head(s))

RECURSIVE Filter(_, _)
\* the elements of s whose index is in keep, in order
Filter(s, keep) ==
    IF s = <<>> THEN <<>>
    ELSE LET rest == Filter(Tail(s), {k - 1 : k \in keep \ {1}})
         IN  IF 1 \in keep THEN <<Head(s)>> \o rest ELSE rest

\* list.remove(x): drops the first element equal to x
ListRemove(s, x) ==
    LET k == CHOOSE j \in 1..Len(s) :
                 s[j] = x /\ \A h \in 1..(j - 1) : s[h] # x
    IN  SubSeq(s, 1, k - 1) \o SubSeq(s, k + 1, Len(s))

\* list.pop(i)
ListPop(s, k) == SubSeq(s, 1, k - 1) \o SubSeq(s, k + 1, Len(s))

RECURSIVE MaxOf(_)
MaxOf(s) == IF Len(s) = 1 THEN s[1]
            ELSE LET m == MaxOf(Tail(s)) IN IF s[1] > m THEN s[1] ELSE m

\* ------------------------------------------------------------------ traces

\* string order of the codes that occur (Python compares the strings)
CodeRank(c) ==
    CASE c = "BW"   -> 1
      [] c = "RJOB" -> 1
      [] c = "ROTZ" -> 2
      [] c = "EHE"  -> 1
      [] c = "EHN"  -> 2
      [] c = "EHX"  -> 3
      [] c = "EHZ"  -> 4

\* tr.stats.channel[-1]
Component(tr) ==
    CASE tr.channel = "EHZ" -> "Z"
      [] tr.channel = "EHN" -> "N"
      [] tr.channel = "EHE" -> "E"
      [] tr.channel = "EHX" -> "X"

\* tr.id (the location code is the same, empty, for every trace)
TraceId(tr) == <<tr.network, tr.station, tr.channel>>

\* "%s.%s" % (network, station)
NetSta(tr) == <<tr.network, tr.station>>

\* the keys Stream.sort compares: network, station, location, channel,
\* starttime, endtime
SortKey(tr) == <<CodeRank(tr.network), CodeRank(tr.station),
                 CodeRank(tr.channel), tr.starttime, tr.endtime>>

RECURSIVE KeyLess(_, _)
KeyLess(a, b) ==
    IF a = <<>> THEN FALSE
    ELSE \/ Head(a) < Head(b)
         \/ Head(a) = Head(b) /\ KeyLess(Tail(a), Tail(b))

TraceLess(a, b) == KeyLess(SortKey(a), SortKey(b))

RECURSIVE Insert(_, _)
Insert(tr, s) ==
    IF s = <<>> THEN <<tr>>
    ELSE IF TraceLess(tr, Head(s)) THEN <<tr>> \o s
         ELSE <<Head(s)>> \o Insert(tr, Tail(s))

RECURSIVE SortAscending(_)
\* Stream.sort()
SortAscending(st) ==
    IF st = <<>> THEN <<>> ELSE Insert(Head(st), SortAscending(Tail(st)))

\* Stream.sort(reverse=True)
SortReverse(st) == Reverse(SortAscending(st))


\* --------------------------------------------------- obspy Stream methods

\* two traces of one id joined into one; the stats of the first are kept
Joined(a, b, nowMasked, nowInterpolated) ==
    [a EXCEPT !.endtime = IF b.endtime > a.endtime THEN b.endtime ELSE a.endtime,
              !.masked = a.masked \/ b.masked \/ nowMasked,
              !.interpolated = a.interpolated \/ b.interpolated \/ nowInterpolated]

RECURSIVE CleanupSorted(_)
CleanupSorted(s) ==
    IF Len(s) <= 1 THEN s
    ELSE IF /\ TraceId(s[1]) = TraceId(s[2])
            /\ s[2].starttime = s[1].endtime + 1
         THEN CleanupSorted(<<Joined(s[1], s[2], FALSE, FALSE)>> \o Tail(Tail(s)))
         ELSE <<s[1]>> \o CleanupSorted(Tail(s))

\* st.merge(method=-1): traces of one id that follow each other without a
\* gap become one trace; nothing else is touched (overlapping traces whose
\* samples differ are left as they are)
MergeCleanup(st) == CleanupSorted(SortAscending(st))

RECURSIVE GapsSorted(_)
\* Stream.getGaps over the sorted traces: delta is the start of a trace
\* minus the end of the one before it; an overlap is not counted beyond the
\* length of the later trace (its end minus its start); a delta of one
\* sample, either way, is no entry
GapsSorted(s) ==
    IF Len(s) <= 1 THEN <<>>
    ELSE LET raw   == s[2].starttime - s[1].endtime
             temp  == s[2].endtime - s[2].starttime
             delta == IF raw < 0 /\ -raw > temp THEN -temp ELSE raw
             n     == IF delta < 0 THEN -delta ELSE delta
             rest  == GapsSorted(Tail(s))
         IN  IF TraceId(s[1]) # TraceId(s[2]) \/ n = 1 THEN rest
             ELSE <<IF delta > 0 THEN n - 1 ELSE n + 1>> \o rest

\* [gap[-1] for gap in st.getGaps()]: the number of samples of every gap and
\* overlap between traces of one id that follow each other
GapSamples(st) == GapsSorted(SortAscending(st))

RECURSIVE MergeSorted(_, _, _)
MergeSorted(s, method, fill) ==
    IF Len(s) <= 1 THEN s
    ELSE IF TraceId(s[1]) = TraceId(s[2])
         THEN LET delta   == s[2].starttime - s[1].endtime
                  gap     == delta > 1
                  overlap == delta < 1
              IN  MergeSorted(
                      <<Joined(s[1], s[2],
                               (gap /\ fill = "none") \/ (overlap /\ method = 0),
                               gap /\ fill = "interpolate")>> \o Tail(Tail(s)),
                      method, fill)
         ELSE <<s[1]>> \o MergeSorted(Tail(s), method, fill)

\* st.merge(method=0 | 1, fill_value=None | "interpolate"): one trace per id;
\* a gap is masked unless it is filled, an overlap is masked by method 0 and
\* taken from the later trace by method 1
Merge(st, method, fill) == MergeSorted(SortAscending(st), method, fill)

\* Stream.merge and Stream._cleanup sort the traces, collect them in a dict
\* by id and rebuild the list with `for id in traces_dict.keys()`: the traces
\* of one id stay together in their order, the ids come in the dict's order,
\* which is arbitrary.  The arrangements of a sorted stream st that can result.
DictOrders(st) ==
    LET n == Len(st)
    IN  { [k \in 1..n |-> st[p[k]]] :
            p \in { q \in [1..n -> 1..n] :
                      /\ \A j, k \in 1..n : q[j] = q[k] => j = k
                      /\ \A j, k \in 1..n :
                            (j < k /\ TraceId(st[q[j]]) = TraceId(st[q[k]]))
                            => /\ q[j] < q[k]
                               /\ \A h \in j..k :
                                     TraceId(st[q[h]]) = TraceId(st[q[j]]) } }

RECURSIVE DictOrdersAll(_)
\* the collections whose groups are such arrangements of the groups of c
DictOrdersAll(c) ==
    IF c = <<>> THEN {<<>>}
    ELSE { <<g>> \o rest : g \in DictOrders(Head(c)),
                           rest \in DictOrdersAll(Tail(c)) }

\* st.select(network=..., station=...)
SelectStation(st, net, sta) ==
    Filter(st, {k \in 1..Len(st) : st[k].network = net /\ st[k].station = sta})

\* st.select(component=...)
SelectComponent(st, c) ==
    Filter(st, {k \in 1..Len(st) : Component(st[k]) = c})

\* the option is compared as it was typed
NotLowered(m) == m

\* str.lower() of the merge option
Lower(m) == IF m = "SAFE" THEN "safe" ELSE m

\* ---------------------------------------------------------------- inputs

MetaKeys == {"coordinates", "longitude", "latitude", "elevation", "paz"}

Tr(sta, chan, s, e) ==
    [network |-> "BW", station |-> sta, channel |-> chan,
     starttime |-> s, endtime |-> e,
     masked |-> FALSE, interpolated |-> FALSE, detrended |-> "none",
     meta |-> MetaKeys]

\* the traces the collections passed to merge_check_and_cleanup_streams are
\* built from: six pieces of RJOB's Z channel, its N and E channels, a
\* channel that is none of Z/N/E, and the Z channel of a second station.
\* Of the Z pieces 4-7 follows 0-3 without a gap, 11-14 follows 4-7 after 3
\* missing samples and 1-6 after 4, 20-23 follows 11-14 after 5 and 25-28
\* follows it after 10; 1-6 overlaps 0-3 and 4-7, with samples that differ
\* from theirs.
TraceUniverse ==
    { Tr("RJOB", "EHZ", 0, 3),   Tr("RJOB", "EHZ", 4, 7),
      Tr("RJOB", "EHZ", 11, 14), Tr("RJOB", "EHZ", 25, 28),
      Tr("RJOB", "EHZ", 1, 6),   Tr("RJOB", "EHZ", 20, 23),
      Tr("RJOB", "EHN", 0, 3),   Tr("RJOB", "EHE", 0, 3),
      Tr("RJOB", "EHX", 0, 3),   Tr("ROTZ", "EHZ", 0, 3) }

RECURSIVE SetToSeq(_)
SetToSeq(S) ==
    IF S = {} THEN <<>>
    ELSE LET x == CHOOSE y \in S : TRUE IN <<x>> \o SetToSeq(S \ {x})

\* the groups of 1..n traces, each in sorted order
GroupsUpTo(n) ==
    { SortAscending(SetToSeq(S)) :
        S \in {T \in SUBSET TraceUniverse : Cardinality(T) \in 1..n} }

RECURSIVE Collections(_, _)
\* the collections of exactly k groups holding at most n traces in all
Collections(k, n) ==
    IF k = 0 THEN {<<>>}
    ELSE UNION { { <<g>> \o c : c \in Collections(k - 1, n - Len(g)) } :
                 g \in GroupsUpTo(n - (k - 1)) }

MergeInputs == UNION { Collections(k, MaxTraces) : k \in 0..MaxGroups }

MergeOptions == {"", "safe", "overwrite", "SAFE", "fast"}

\* the metadata a Z trace may carry: all of it, no coordinates at all, one
\* coordinate missing, no paz
ZMetas == {MetaKeys, {"paz"}} \cup {MetaKeys \ {k} : k \in MetaKeys \ {"coordinates"}}

\* the metadata an N or E trace may carry
HMetas == {MetaKeys, MetaKeys \ {"paz"}}

StationAt(k) == IF k % 2 = 1 THEN "RJOB" ELSE "ROTZ"

\* the groups cleanup_streams is given: one Z trace, or Z, N, E
MetaGroups(sta) ==
    { <<[Tr(sta, "EHZ", 0, 3) EXCEPT !.meta = mz]>> : mz \in ZMetas }
    \cup
    { <<[Tr(sta, "EHZ", 0, 3) EXCEPT !.meta = mz],
        [Tr(sta, "EHN", 0, 3) EXCEPT !.meta = mn],
        [Tr(sta, "EHE", 0, 3) EXCEPT !.meta = me]>> :
        mz \in ZMetas, mn \in HMetas, me \in HMetas }

RECURSIVE TraceCount(_)
TraceCount(c) == IF c = <<>> THEN 0 ELSE Len(Head(c)) + TraceCount(Tail(c))

RECURSIVE MetaCollections(_, _)
\* the collections of k such groups holding at most n traces in all
MetaCollections(k, n) ==
    IF k = 0 THEN {<<>>}
    ELSE UNION { { Append(c, g) :
                   g \in {h \in MetaGroups(StationAt(k)) :
                            Len(h) <= n - TraceCount(c)} } :
                 c \in MetaCollections(k - 1, n - 1) }

MetaInputs == UNION { MetaCollections(k, MaxTraces) : k \in 0..MaxGroups }

\* ----------------------------------------------------------------- state

VARIABLES
    fn,          \* the function that is running or has run
    run,         \* "first" call of it, or "second" call on the first's result
    pc,          \* the place in the function; "done" = returned, "raised"
    err,         \* the exception that left the function, "" if none
    input,       \* the collection as the caller passed it to this call
    streams,     \* the collection (the list is changed in place)
    merge,       \* options.merge
    nozeromean,  \* options.nozeromean
    nometadata,  \* options.nometadata
    warn_msg,    \* the diagnostics appended to warn_msg so far
    merge_msg,   \* the hints merge_msg holds
    sta_list,    \* the identities accepted so far
    net_sta,     \* the local variable net_sta, <<>> while unbound
    i,           \* the groups the running loop has visited
    snap,        \* len(list(streams)), the copy the check loop walks
    args,        \* the arguments of a call of one of the other functions,
                 \* with what the call finds in its environment
    result,      \* what that call returned, <<>> while it has not
    tmp_dir,     \* the directory tempfile.mkdtemp made, <<>> while unbound
    PROGRAMS,    \* the module's dictionary PROGRAMS
    SHELL,       \* the module's global SHELL, "unset" until it is assigned
    copied,      \* the plugin directories copied below tmp_dir
    sub,         \* the subprocess of a running Call, <<>> if there is none
    locals       \* the local variables of the running Call, or of the
                 \* running fetch_waveforms_with_metadata

\* the state of the functions that do not handle streams
others == <<args, result, tmp_dir, PROGRAMS, SHELL, copied, sub, locals>>

vars == <<fn, run, pc, err, input, streams, merge, nozeromean, nometadata,
          warn_msg, merge_msg, sta_list, net_sta, i, snap,
          args, result, tmp_dir, PROGRAMS, SHELL, copied, sub, locals>>

\* setup_external_programs has not been called
ProgramsIdle ==
    /\ tmp_dir = <<>>
    /\ PROGRAMS = <<>>
    /\ SHELL = "unset"
    /\ copied = {}
    /\ sub = <<>>
    /\ locals = <<>>

programVars == <<tmp_dir, PROGRAMS, SHELL, copied, sub, locals>>

\* no other function has been called
OthersIdle ==
    /\ args = <<>>
    /\ result = <<>>
    /\ ProgramsIdle

MERGE_CHECK == "merge_check_and_cleanup_streams"

CLEANUP == "cleanup_streams"

\* a call of merge_check_and_cleanup_streams(streams, options)
InitMerge ==
    /\ fn = MERGE_CHECK
    /\ pc = "merge_cleanup"
    /\ streams \in MergeInputs
    /\ merge \in MergeOptions
    /\ nozeromean \in BOOLEAN
    /\ nometadata = FALSE

\* a call of cleanup_streams(streams, options)
InitMeta ==
    /\ fn = CLEANUP
    /\ streams \in MetaInputs
    /\ pc = IF streams = <<>> THEN "done" ELSE "metadata"
    /\ merge = ""
    /\ nozeromean = FALSE
    /\ nometadata \in BOOLEAN

Init ==
    /\ InitMerge \/ InitMeta
    /\ run = "first"
    /\ err = ""
    /\ input = streams
    /\ warn_msg = <<>>
    /\ merge_msg = <<>>
    /\ sta_list = {}
    /\ net_sta = <<>>
    /\ i = IF fn = CLEANUP THEN Len(streams) ELSE 0
    /\ snap = 0
    /\ OthersIdle

\* one diagnostic of the warning text
Diag(kind, id, chans) == [kind |-> kind, id |-> id, chans |-> chans]

Channels(st) == [k \in 1..Len(st) |-> st[k].channel]

\* ------------------------------------ merge_check_and_cleanup_streams

\* lines 473-474: for st in streams: st.merge(method=-1)
MergeCleanupAll ==
    /\ fn = MERGE_CHECK /\ pc = "merge_cleanup"
    /\ streams' \in
           DictOrdersAll([k \in 1..Len(streams) |-> MergeCleanup(streams[k])])
    /\ pc' = "merge_option"
    /\ UNCHANGED <<fn, run, err, input, merge, nozeromean, nometadata,
                   warn_msg, merge_msg, sta_list, net_sta, i, snap>>
    /\ UNCHANGED others

\* line 481: st.getGaps() and max([gap[-1] for gap in st.getGaps()]) < 5
Interpolates(st) ==
    LET gaps == GapSamples(st) IN gaps # <<>> /\ MaxOf(gaps) < GapLimit

\* lines 482-485: the diagnostic of an interpolated group
InterpolatedDiag(st) == Diag("interpolated", NetSta(st[1]), <<>>)

\* lines 480-488: one group under "overwrite"
MergeOverwrite(st) ==
    IF Interpolates(st) THEN Merge(st, 1, "interpolate") ELSE Merge(st, 1, "none")

RECURSIVE InterpolatedDiags(_)
\* the diagnostics the "overwrite" loop appends, in the order of the groups
InterpolatedDiags(c) ==
    IF c = <<>> THEN <<>>
    ELSE (IF Interpolates(Head(c)) THEN <<InterpolatedDiag(Head(c))>> ELSE <<>>)
         \o InterpolatedDiags(Tail(c))

\* line 475: if options.merge is false (the empty string)
MergeNone ==
    /\ merge = ""
    /\ pc' = "sort"
    /\ UNCHANGED <<streams, warn_msg, err>>

\* lines 476-478
MergeSafe ==
    /\ merge # "" /\ Lower(merge) = "safe"
    /\ streams' \in
           DictOrdersAll([k \in 1..Len(streams) |-> Merge(streams[k], 0, "none")])
    /\ pc' = "sort"
    /\ UNCHANGED <<warn_msg, err>>

\* lines 479-488
MergeOverwriteAll ==
    /\ merge # "" /\ Lower(merge) = "overwrite"
    /\ streams' \in
           DictOrdersAll([k \in 1..Len(streams) |-> MergeOverwrite(streams[k])])
    /\ warn_msg' = warn_msg \o InterpolatedDiags(streams)
    /\ pc' = "sort"
    /\ UNCHANGED err

\* lines 489-492
MergeUnrecognized ==
    /\ merge # "" /\ Lower(merge) \notin {"safe", "overwrite"}
    /\ pc' = "raised"
    /\ err' = "Unrecognized option for merging traces"
    /\ UNCHANGED <<streams, warn_msg>>

\* lines 475-492
MergeOption ==
    /\ fn = MERGE_CHECK /\ pc = "merge_option"
    /\ \/ MergeNone
       \/ MergeSafe
       \/ MergeOverwriteAll
       \/ MergeUnrecognized
    /\ UNCHANGED <<fn, run, input, merge, nozeromean, nometadata,
                   merge_msg, sta_list, net_sta, i, snap>>
    /\ UNCHANGED others

\* where the function goes once the check loop has ended (line 589)
AfterCheck(c) == IF nozeromean \/ c = <<>> THEN "done" ELSE "demean"

\* lines 495-500: re-sort every group, start the loop over list(streams)
SortAll ==
    /\ fn = MERGE_CHECK /\ pc = "sort"
    /\ streams' = [k \in 1..Len(streams) |-> SortReverse(streams[k])]
    /\ sta_list' = {}
    /\ i' = 0
    /\ snap' = Len(streams)
    /\ pc' = IF streams = <<>> THEN AfterCheck(streams) ELSE "check"
    /\ UNCHANGED <<fn, run, err, input, merge, nozeromean, nometadata,
                   warn_msg, merge_msg, net_sta>>
    /\ UNCHANGED others

\* the place in `streams` of the group the check loop is at: the loop walks
\* the copy list(streams), and every removal so far took one group out of
\* `streams` at or before that place
Pos == i + 1 - (snap - Len(streams))

\* the group the running loop is at
Cur == streams[Pos]

\* lines 502-503
Mixed(st) ==
    Len(st) # Len(SelectStation(st, st[1].network, st[1].station))

\* lines 510-511 (the codes carry no blanks to strip)
NetStaOf(st) == NetSta(st[1])

\* lines 529-532: the traces left once every channel not ending in Z/N/E is
\* removed (a Stream iterates over a copy of its trace list)
KnownChannels(st) ==
    Filter(st, {k \in 1..Len(st) : Component(st[k]) \in {"Z", "N", "E"}})

\* lines 528-531: removed_channels
RemovedChannels(st) ==
    Channels(Filter(st, {k \in 1..Len(st) : Component(st[k]) \notin {"Z", "N", "E"}}))

\* line 514: net_sta in sta_list
Duplicate(st) == NetStaOf(st) \in sta_list

\* line 521
BadCount(st) == Len(st) \notin {1, 3}

\* line 533
Recovered(st) == Len(KnownChannels(st)) \in {1, 3}

\* a single trace is tested by its first character instead of its last
OneNotZFirstChar(st) == Len(st) = 1

\* line 555
OneNotZ(st) == Len(st) = 1 /\ Component(st[1]) # "Z"

\* only the first of the three traces is tested
NotZNEFirstOnly(st) == Component(st[1]) # "Z"

\* lines 570-572
NotZNE(st) ==
    \/ Component(st[1]) # "Z"
    \/ Component(st[2]) # "N"
    \/ Component(st[3]) # "E"

\* line 570
ThreeNotZNE(st) == Len(st) = 3 /\ NotZNE(st)

\* the loop over list(streams) moves on to its next group, or ends
NextStream(c) ==
    /\ i' = IF i + 1 = snap THEN 0 ELSE i + 1
    /\ pc' = IF i + 1 = snap THEN AfterCheck(c) ELSE "check"

\* lines 502-509
CheckMixed ==
    /\ Mixed(Cur)
    /\ warn_msg' = Append(warn_msg, Diag("mixed", <<>>, <<>>))
    /\ LET c == ListRemove(streams, Cur)
       IN  streams' = c /\ NextStream(c)
    /\ UNCHANGED <<net_sta, sta_list, merge_msg, err>>

\* lines 514-516: the message is built as
\*   "..." + "already in stream list. Discarding stream." % net_sta
\* and % binds tighter than +, so a string without a conversion is formatted
\* with one argument: TypeError
CheckDuplicate ==
    /\ ~Mixed(Cur)
    /\ Duplicate(Cur)
    /\ net_sta' = NetStaOf(Cur)
    /\ pc' = "raised"
    /\ err' = "TypeError"
    /\ UNCHANGED <<streams, warn_msg, sta_list, merge_msg, i>>

\* lines 521-538: not 1 or 3 traces, and 1 or 3 once the unknown channels are
\* removed from the group: the group stays, nothing else is checked
CheckRecovered ==
    /\ ~Mixed(Cur)
    /\ ~Duplicate(Cur)
    /\ BadCount(Cur)
    /\ Recovered(Cur)
    /\ net_sta' = NetStaOf(Cur)
    /\ warn_msg' = warn_msg \o
          << Diag("one_z_or_three_zne", <<>>, <<>>),
             Diag("deleted_channels", NetStaOf(Cur), RemovedChannels(Cur)) >>
    /\ LET c == [streams EXCEPT ![Pos] = KnownChannels(Cur)]
       IN  streams' = c /\ NextStream(c)
    /\ UNCHANGED <<sta_list, merge_msg, err>>

\* the hint is appended to the text (+=) instead of assigned
AppendMergeHint(m) == Append(m, "merge_hint")

\* line 551: merge_msg = "IMPORTANT: You can try the command line option
\* merge ..."
SetMergeHint(m) == <<"merge_hint">>

\* lines 521-532, 539-554: still not 1 or 3 traces
CheckCount ==
    /\ ~Mixed(Cur)
    /\ ~Duplicate(Cur)
    /\ BadCount(Cur)
    /\ ~Recovered(Cur)
    /\ net_sta' = NetStaOf(Cur)
    /\ warn_msg' = warn_msg \o
          << Diag("one_z_or_three_zne", <<>>, <<>>),
             Diag("discarded_count", NetStaOf(Cur), <<>>),
             Diag("dump", <<>>, Channels(KnownChannels(Cur))) >>
    /\ merge_msg' = SetMergeHint(merge_msg)
    /\ LET c == ListRemove([streams EXCEPT ![Pos] = KnownChannels(Cur)],
                           KnownChannels(Cur))
       IN  streams' = c /\ NextStream(c)
    /\ UNCHANGED <<sta_list, err>>

\* lines 555-569
CheckOneNotZ ==
    /\ ~Mixed(Cur)
    /\ ~Duplicate(Cur)
    /\ ~BadCount(Cur)
    /\ OneNotZ(Cur)
    /\ net_sta' = NetStaOf(Cur)
    /\ warn_msg' = warn_msg \o
          << Diag("one_not_z", NetStaOf(Cur), <<>>),
             Diag("dump", <<>>, Channels(Cur)) >>
    /\ LET c == ListRemove(streams, Cur)
       IN  streams' = c /\ NextStream(c)
    /\ UNCHANGED <<sta_list, merge_msg, err>>

\* lines 570-586
CheckThreeNotZNE ==
    /\ ~Mixed(Cur)
    /\ ~Duplicate(Cur)
    /\ ~BadCount(Cur)
    /\ ~OneNotZ(Cur)
    /\ ThreeNotZNE(Cur)
    /\ net_sta' = NetStaOf(Cur)
    /\ warn_msg' = warn_msg \o
          << Diag("three_not_zne", NetStaOf(Cur), <<>>),
             Diag("dump", <<>>, Channels(Cur)) >>
    /\ LET c == ListRemove(streams, Cur)
       IN  streams' = c /\ NextStream(c)
    /\ UNCHANGED <<sta_list, merge_msg, err>>

\* line 587
CheckAccept ==
    /\ ~Mixed(Cur)
    /\ ~Duplicate(Cur)
    /\ ~BadCount(Cur)
    /\ ~OneNotZ(Cur)
    /\ ~ThreeNotZNE(Cur)
    /\ net_sta' = NetStaOf(Cur)
    /\ sta_list' = sta_list \cup {NetStaOf(Cur)}
    /\ NextStream(streams)
    /\ UNCHANGED <<streams, warn_msg, merge_msg, err>>

\* lines 500-587: one pass of the loop over list(streams)
CheckStream ==
    /\ fn = MERGE_CHECK /\ pc = "check"
    /\ \/ CheckMixed
       \/ CheckDuplicate
       \/ CheckRecovered
       \/ CheckCount
       \/ CheckOneNotZ
       \/ CheckThreeNotZNE
       \/ CheckAccept
    /\ UNCHANGED <<fn, run, input, merge, nozeromean, nometadata, snap>>
    /\ UNCHANGED others

\* the first trace of st with masked values, 0 if there is none
FirstMasked(st) ==
    IF \E k \in 1..Len(st) : st[k].masked
    THEN CHOOSE k \in 1..Len(st) :
             st[k].masked /\ \A h \in 1..(k - 1) : ~st[h].masked
    ELSE 0

\* lines 592-593: st.detrend('simple'); st.detrend('constant').  A Stream
\* detrends its traces in turn; a trace with masked values raises
\* NotImplementedError("Trace with masked values found. ...") and the traces
\* before it keep the detrend that was applied
Detrended(st) ==
    IF FirstMasked(st) = 0
    THEN [k \in 1..Len(st) |-> [st[k] EXCEPT !.detrended = "constant"]]
    ELSE [k \in 1..Len(st) |->
            IF k < FirstMasked(st) THEN [st[k] EXCEPT !.detrended = "simple"]
            ELSE st[k]]

\* lines 594-598: the diagnostic of a group that could not be detrended
MaskedDiag(st) == Diag("masked", net_sta, <<>>)

\* the loop over streams moves on to its next group, or the function returns
NextDemean ==
    /\ i' = i + 1
    /\ pc' = IF i + 1 = Len(streams) THEN "done" ELSE "demean"

\* lines 591-593
DemeanDone ==
    /\ FirstMasked(streams[i + 1]) = 0
    /\ NextDemean
    /\ UNCHANGED <<warn_msg, err>>

\* lines 594-598
DemeanMasked ==
    /\ FirstMasked(streams[i + 1]) # 0
    /\ warn_msg' = Append(warn_msg, MaskedDiag(streams[i + 1]))
    /\ NextDemean
    /\ UNCHANGED err

\* lines 590-600: one pass of the loop over streams
DemeanStream ==
    /\ fn = MERGE_CHECK /\ pc = "demean"
    /\ streams' = [streams EXCEPT ![i + 1] = Detrended(streams[i + 1])]
    /\ \/ DemeanDone
       \/ DemeanMasked
    /\ UNCHANGED <<fn, run, input, merge, nozeromean, nometadata,
                   merge_msg, sta_list, net_sta, snap>>
    /\ UNCHANGED others

\* lines 592-593: the group when detrend(type) fails at its j-th trace: the
\* traces before it have been detrended in place by this call, and all of
\* them by the call of line 592 when the call of line 593 fails
DetrendFailed(st, type, j) ==
    [k \in 1..Len(st) |->
        IF k < j THEN [st[k] EXCEPT !.detrended = type]
        ELSE IF type = "constant" THEN [st[k] EXCEPT !.detrended = "simple"]
        ELSE st[k]]

\* lines 599-600: detrend fails in any other way, at a trace the masked
\* values test lets pass, and the error is raised again
DemeanRaise ==
    /\ fn = MERGE_CHECK /\ pc = "demean"
    /\ \E type \in {"simple", "constant"}, j \in 1..Len(streams[i + 1]) :
          /\ \/ FirstMasked(streams[i + 1]) = 0
             \/ type = "simple" /\ j < FirstMasked(streams[i + 1])
          /\ streams' = [streams EXCEPT
                            ![i + 1] = DetrendFailed(streams[i + 1], type, j)]
    /\ pc' = "raised"
    /\ err' = "detrend failed"
    /\ UNCHANGED <<fn, run, input, merge, nozeromean, nometadata,
                   warn_msg, merge_msg, sta_list, net_sta, i, snap>>
    /\ UNCHANGED others

\* -------------------------------------------------------- cleanup_streams

\* st.select(component=c)[0] raises IndexError when no trace has it
HasComponent(st, c) == SelectComponent(st, c) # <<>>

\* lines 615-618: the lookups of trZ, trN, trE succeed
ComponentsFound(st) ==
    /\ HasComponent(st, "Z")
    /\ Len(st) = 3 => HasComponent(st, "N") /\ HasComponent(st, "E")

\* tr.stats.coordinates raises when the stats hold no such attribute
AttributeMissing(tr, name) == name \notin tr.meta

\* d.get(key) returns None for a key that is missing: it never raises
GetRaises(tr, key) == FALSE

\* lines 622-630: the try block raises
MissingMetadata(st) ==
    LET trZ == SelectComponent(st, "Z")[1]
    IN  \/ AttributeMissing(trZ, "coordinates")
        \/ GetRaises(trZ, "longitude")
        \/ GetRaises(trZ, "latitude")
        \/ GetRaises(trZ, "elevation")
        \/ GetRaises(trZ, "paz")
        \/ /\ Len(st) = 3
           /\ \/ GetRaises(SelectComponent(st, "N")[1], "paz")
              \/ GetRaises(SelectComponent(st, "E")[1], "paz")

\* the loop over range(len(streams))[::-1] moves on, or the function returns
NextMetadata ==
    /\ i' = i - 1
    /\ pc' = IF i = 1 THEN "done" ELSE "metadata"

\* lines 615-618: IndexError
MetadataNoComponent ==
    /\ ~ComponentsFound(streams[i])
    /\ pc' = "raised"
    /\ err' = "IndexError"
    /\ UNCHANGED <<streams, i>>

\* lines 621-634: streams.pop(i)
MetadataDiscard ==
    /\ ComponentsFound(streams[i])
    /\ ~nometadata
    /\ MissingMetadata(streams[i])
    /\ streams' = ListPop(streams, i)
    /\ NextMetadata
    /\ UNCHANGED err

\* lines 621-630: nothing raised, or the options disable the check
MetadataKeep ==
    /\ ComponentsFound(streams[i])
    /\ nometadata \/ ~MissingMetadata(streams[i])
    /\ NextMetadata
    /\ UNCHANGED <<streams, err>>

\* lines 613-634: one pass of the loop
CleanupStream ==
    /\ fn = CLEANUP /\ pc = "metadata"
    /\ \/ MetadataNoComponent
       \/ MetadataDiscard
       \/ MetadataKeep
    /\ UNCHANGED <<fn, run, input, merge, nozeromean, nometadata,
                   warn_msg, merge_msg, sta_list, net_sta, snap>>
    /\ UNCHANGED others

\* ------------------------------------------------------------ the caller

\* merge_check_and_cleanup_streams is called again, with the same options,
\* on the collection it returned
CallAgain ==
    /\ fn = MERGE_CHECK /\ pc = "done" /\ run = "first"
    /\ run' = "second"
    /\ pc' = "merge_cleanup"
    /\ input' = streams
    /\ warn_msg' = <<>>
    /\ merge_msg' = <<>>
    /\ sta_list' = {}
    /\ net_sta' = <<>>
    /\ i' = 0
    /\ snap' = 0
    /\ UNCHANGED <<fn, err, streams, merge, nozeromean, nometadata>>
    /\ UNCHANGED others

\* cleanup_streams is called on the collection merge_check_and_cleanup_streams
\* returned
CallCleanupStreams ==
    /\ fn = MERGE_CHECK /\ pc = "done" /\ run = "first"
    /\ fn' = CLEANUP
    /\ nometadata' \in BOOLEAN
    /\ input' = streams
    /\ i' = Len(streams)
    /\ pc' = IF streams = <<>> THEN "done" ELSE "metadata"
    /\ UNCHANGED <<run, err, streams, merge, nozeromean,
                   warn_msg, merge_msg, sta_list, net_sta, snap>>
    /\ UNCHANGED others

Next ==
    \/ MergeCleanupAll
    \/ MergeOption
    \/ SortAll
    \/ CheckStream
    \/ DemeanStream
    \/ DemeanRaise
    \/ CleanupStream
    \/ CallAgain
    \/ CallCleanupStreams

Spec == Init /\ [][Next]_vars

\* ------------------------------------------------- the other functions

\* the state of the functions that handle streams, none of which is called
StreamsIdle ==
    /\ run = "first"
    /\ err = ""
    /\ input = <<>>
    /\ streams = <<>>
    /\ merge = ""
    /\ nozeromean = FALSE
    /\ nometadata = FALSE
    /\ warn_msg = <<>>
    /\ merge_msg = <<>>
    /\ sta_list = {}
    /\ net_sta = <<>>
    /\ i = 0
    /\ snap = 0

streamVars == <<run, input, streams, merge, nozeromean, nometadata,
                warn_msg, merge_msg, sta_list, net_sta, i, snap>>

RECURSIVE SeqsUpTo(_, _)
\* the sequences of at most n elements of S
SeqsUpTo(S, n) ==
    IF n = 0 THEN {<<>>}
    ELSE LET shorter == SeqsUpTo(S, n - 1)
         IN  shorter \cup {Append(q, x) : q \in shorter, x \in S}

\* ------------------------------------- errorEllipsoid2CartesianErrors

\* np.sin(np.radians(a)) for a right angle a
SinDeg(a) ==
    CASE a % 360 = 0   -> 0
      [] a % 360 = 90  -> 1
      [] a % 360 = 180 -> 0
      [] a % 360 = 270 -> -1

\* np.cos(np.radians(a)) for a right angle a
CosDeg(a) ==
    CASE a % 360 = 0   -> 1
      [] a % 360 = 90  -> 0
      [] a % 360 = 180 -> -1
      [] a % 360 = 270 -> 0

\* a float: a number, or nan (the result of 0.0 / 0.0)
Num(v) == [nan |-> FALSE, val |-> v]

NaN == [nan |-> TRUE, val |-> 0]

\* the azimuth is measured from the x axis instead of the y axis
AxisVectorFromX(azimuth, dip, len) ==
    LET z  == len * SinDeg(dip)
        xy == len * CosDeg(dip)
    IN  <<xy * CosDeg(azimuth), xy * SinDeg(azimuth), z>>

\* lines 838-842 (and 844-848): the vector of an axis
AxisVector(azimuth, dip, len) ==
    LET z  == len * SinDeg(dip)
        xy == len * CosDeg(dip)
        x  == xy * SinDeg(azimuth)
        y  == xy * CosDeg(azimuth)
    IN  <<x, y, z>>

\* np.cross(a, b)
Cross(a, b) ==
    <<a[2] * b[3] - a[3] * b[2],
      a[3] * b[1] - a[1] * b[3],
      a[1] * b[2] - a[2] * b[1]>>

\* np.dot(a, b)
Dot(a, b) == a[1] * b[1] + a[2] * b[2] + a[3] * b[3]

\* np.abs(x)
Abs(x) == IF x < 0 THEN -x ELSE x

\* lines 851-852, 856: v3 /= np.sqrt(np.dot(v3, v3)); v3 *= len3; np.abs(v3).
\* Dividing a float array by 0.0 raises nothing: 0.0 / 0.0 is nan (numpy only
\* warns), and nan stays nan when scaled and in np.abs.
Scaled(v, len) ==
    LET norm == CHOOSE r \in 0..Dot(v, v) : r * r = Dot(v, v)
    IN  IF norm = 0 THEN [k \in 1..3 |-> NaN]
        ELSE [k \in 1..3 |-> Num(Abs((v[k] * len) \div norm))]

RECURSIVE PyMax(_)
\* max(list) of Python: the first element, replaced by each later element
\* that compares greater; x > y is false when either is nan
PyMax(s) ==
    IF Len(s) = 1 THEN s[1]
    ELSE LET m == PyMax(SubSeq(s, 1, Len(s) - 1))
             x == s[Len(s)]
         IN  IF ~x.nan /\ ~m.nan /\ x.val > m.val THEN x ELSE m

\* lines 838-862: the triple the function returns
CartesianErrors(a) ==
    LET v1 == AxisVector(a.azimuth1, a.dip1, a.len1)
        v2 == AxisVector(a.azimuth2, a.dip2, a.len2)
        v3 == Scaled(Cross(v1, v2), a.len3)
    IN  [k \in 1..3 |-> PyMax(<<Num(Abs(v1[k])), Num(Abs(v2[k])), v3[k]>>)]

\* lines 850-851: the first two axes of a call are parallel, or one of them
\* has no length: np.dot(v3, v3) is 0
ParallelAxes(a) ==
    LET c == Cross(AxisVector(a.azimuth1, a.dip1, a.len1),
                   AxisVector(a.azimuth2, a.dip2, a.len2))
    IN  Dot(c, c) = 0

\* the arguments of a call: right angles (degrees), for which sine and
\* cosine are whole numbers.  Of the calls with parallel axes only those
\* whose floats are exact are made (an axis has no length, or both axes are
\* at azimuth 0 and dip 0, where sin is 0.0 and cos is 1.0): for the others
\* the rounding of sine and cosine decides whether the cross product is 0.0
\* or a tiny vector.
EllipsoidInputs ==
    {a \in [azimuth1 : {0, 90, 180, 270}, dip1 : {-90, 0, 90},
            len1 : {0, 3, 5, 10},
            azimuth2 : {0, 90, 180, 270}, dip2 : {-90, 0, 90},
            len2 : {0, 3, 5, 10}, len3 : {3, 5, 10}] :
        ParallelAxes(a) =>
            \/ a.len1 = 0
            \/ a.len2 = 0
            \/ a.azimuth1 = 0 /\ a.dip1 = 0 /\ a.azimuth2 = 0 /\ a.dip2 = 0}

\* a call of errorEllipsoid2CartesianErrors
InitEllipsoid ==
    /\ fn = "errorEllipsoid2CartesianErrors"
    /\ pc = "call"
    /\ args \in EllipsoidInputs
    /\ result = <<>>
    /\ ProgramsIdle
    /\ StreamsIdle

\* lines 838-862: the function runs and returns; no statement of it raises
ErrorEllipsoid2CartesianErrors ==
    /\ fn = "errorEllipsoid2CartesianErrors" /\ pc = "call"
    /\ result' = CartesianErrors(args)
    /\ pc' = "done"
    /\ UNCHANGED <<fn, err, args>>
    /\ UNCHANGED streamVars
    /\ UNCHANGED programVars

SpecEllipsoid == InitEllipsoid /\ [][ErrorEllipsoid2CartesianErrors]_vars

\* ---------------------------------------------------- readNLLocScatter

\* most float values in a scatter file
MaxFloats == 12

\* line 823: the number of header values omitted
HeaderLen == 4

\* line 824: the number of floats per sample (x, y, z, pdf value)
SampleLen == 4

\* line 808: lat = -37 + (y / 111.111), here in metres per degree
MetresPerDegLat == 111111

\* line 809: 111.111 * math.cos(math.radians(-37.346500347)) = 88.331179...,
\* here in metres per degree
MetresPerDegLon == 88331

\* a / b rounded to the nearest whole number (b > 0)
RoundDiv(a, b) ==
    IF a >= 0 THEN (2 * a + b) \div (2 * b) ELSE -((2 * (-a) + b) \div (2 * b))

\* line 808, in units of 0.00001 degree
Lat(y) == -37 * 100000 + RoundDiv(y * 100000 * 1000, MetresPerDegLat)

\* line 809, in units of 0.00001 degree
Lon(x) == 144 * 100000 + RoundDiv(x * 100000 * 1000, MetresPerDegLon)

\* lines 807-810: lonlatconv of two arrays works element by element
lonlatconv(x, y) ==
    <<[k \in 1..Len(x) |-> Lon(x[k])], [k \in 1..Len(y) |-> Lat(y[k])]>>

\* the header is not omitted
KeepHeader(buffer) == buffer

\* line 823: data[4:], empty when there are fewer than 4 values
OmitHeader(buffer) == SubSeq(buffer, HeaderLen + 1, Len(buffer))

\* line 824: reshape((len(data)/4, 4)), with the division of two ints,
\* raises ValueError unless rows * 4 values are there
ReshapeFails(data) == (Len(data) \div SampleLen) * SampleLen # Len(data)

\* line 824: data.reshape((rows, 4)).swapaxes(0, 1)[c], column c of the rows
Column(data, c) ==
    [k \in 1..(Len(data) \div SampleLen) |-> data[(k - 1) * SampleLen + c]]

\* lines 823-827: the array the function returns for a file of these floats
Scatter(buffer) ==
    LET data   == OmitHeader(buffer)
        lonlat == lonlatconv(Column(data, 1), Column(data, 2))
    IN  <<lonlat[1], lonlat[2], Column(data, 3)>>

\* a call of readNLLocScatter on a file: every number of floats up to
\* MaxFloats, each float one of two values
InitScatter ==
    /\ fn = "readNLLocScatter"
    /\ pc = "call"
    /\ args \in SeqsUpTo({-2, 3}, MaxFloats)
    /\ result = <<>>
    /\ ProgramsIdle
    /\ StreamsIdle

\* lines 822-827: reshape raises (line 824), or the array is returned
ReadNLLocScatter ==
    /\ fn = "readNLLocScatter" /\ pc = "call"
    /\ \/ /\ ReshapeFails(OmitHeader(args))
          /\ pc' = "raised"
          /\ err' = "ValueError"
          /\ UNCHANGED result
       \/ /\ ~ReshapeFails(OmitHeader(args))
          /\ pc' = "done"
          /\ result' = Scatter(args)
          /\ UNCHANGED err
    /\ UNCHANGED <<fn, args>>
    /\ UNCHANGED streamVars
    /\ UNCHANGED programVars

SpecScatter == InitScatter /\ [][ReadNLLocScatter]_vars

\* ----------------------------------------------- setup_external_programs

Tools == {"nlloc", "hyp_2000", "focmec"}

\* lines 176-186: the file names PROGRAMS holds for each tool
Filenames(t) ==
    CASE t = "nlloc" ->
           [k \in {"exe", "phases", "summary", "scatter"} |->
               CASE k = "exe" -> "NLLoc" [] k = "phases" -> "nlloc.obs"
                 [] k = "summary" -> "nlloc.hyp" [] k = "scatter" -> "nlloc.scat"]
      [] t = "hyp_2000" ->
           [k \in {"exe", "control", "phases", "stations", "summary"} |->
               CASE k = "exe" -> "hyp2000" [] k = "control" -> "bay2000.inp"
                 [] k = "phases" -> "hyp2000.pha"
                 [] k = "stations" -> "stations.dat" [] k = "summary" -> "hypo.prt"]
      [] t = "focmec" ->
           [k \in {"exe", "phases", "stdout", "summary"} |->
               CASE k = "exe" -> "rfocmec" [] k = "phases" -> "focmec.dat"
                 [] k = "stdout" -> "focmec.stdout" [] k = "summary" -> "focmec.out"]

\* lines 176-186: PROGRAMS as the module defines it
ProgramsAtImport == [t \in Tools |-> [k \in {"filenames"} |-> Filenames(t)]]

\* d[k] = v of a Python dictionary
Put(d, k, v) == [x \in DOMAIN d \cup {k} |-> IF x = k THEN v ELSE d[x]]

\* a call of setup_external_programs(options), and what it finds: whether
\* options.pluginpath is a directory, which plugin directories it holds,
\* platform.system(), platform.architecture()[0], the variables of os.environ
InitSetup ==
    /\ fn = "setup_external_programs"
    /\ pc = "isdir"
    /\ args \in {a \in [isdir : BOOLEAN, plugins : SUBSET Tools,
                        system : {"Linux", "Darwin", "Windows"},
                        architecture : {"32bit", "64bit"},
                        environ : {{"PATH"}, {"PATH", "SystemRoot"}}] :
                    ~a.isdir => a.plugins = {}}
    /\ result = <<>>
    /\ tmp_dir = <<>>
    /\ PROGRAMS = ProgramsAtImport
    /\ SHELL = "unset"
    /\ copied = {}
    /\ sub = <<>>
    /\ locals = <<>>
    /\ StreamsIdle

\* the directory is not looked at before the work begins
NotChecked(isdir) == "mkdtemp"

\* lines 647-649: where the function goes after os.path.isdir
AfterIsdir(isdir) == IF isdir THEN "mkdtemp" ELSE "raised"

\* lines 647-649
SetupIsdir ==
    /\ fn = "setup_external_programs" /\ pc = "isdir"
    /\ pc' = AfterIsdir(args.isdir)
    /\ err' = IF pc' = "raised" THEN "IOError: No such directory" ELSE err
    /\ UNCHANGED <<fn, args, result, tmp_dir, PROGRAMS, SHELL, copied, sub, locals>>
    /\ UNCHANGED streamVars

\* lines 650-659: the scratch directory is made, SHELL is assigned
SetupMkdtemp ==
    /\ fn = "setup_external_programs" /\ pc = "mkdtemp"
    /\ tmp_dir' = <<"obspyck-">>
    /\ SHELL' = (args.system = "Windows")
    /\ pc' = "programs"
    /\ UNCHANGED <<fn, err, args, result, PROGRAMS, copied, sub, locals>>
    /\ UNCHANGED streamVars

\* lines 666-670: the paths of the files of tool t; a path is the sequence
\* of its parts, os.path.join appends one
Files(t) ==
    [k \in DOMAIN Filenames(t) |->
        IF k = "exe"
        THEN <<Filenames(t)[k], args.system, args.architecture>>
        ELSE Append(Append(tmp_dir, t), Filenames(t)[k])]

\* lines 661-675: one pass of the loop over PROGRAMS.iteritems(), in the
\* dictionary's order.  A tool has been visited once it has its 'dir'.
\* Lines 662-665: copytree raises for a plugin directory that is not there.
\* Lines 666-675: the tool gets its 'files' and its 'env'.
SetupProgram ==
    /\ fn = "setup_external_programs" /\ pc = "programs"
    /\ \E t \in Tools :
          /\ "dir" \notin DOMAIN PROGRAMS[t]
          /\ \/ /\ t \in args.plugins
                /\ copied' = copied \cup {t}
                /\ PROGRAMS' = [PROGRAMS EXCEPT ![t] =
                       Put(Put(Put(@, "dir", Append(tmp_dir, t)),
                               "files", Files(t)),
                           "env", {"PATH"} \cup (args.environ \cap {"SystemRoot"}))]
                /\ pc' = IF \A u \in Tools \ {t} : "dir" \in DOMAIN PROGRAMS[u]
                         THEN "bind" ELSE pc
                /\ UNCHANGED err
             \/ /\ t \notin args.plugins
                /\ PROGRAMS' = [PROGRAMS EXCEPT ![t] =
                       Put(@, "dir", Append(tmp_dir, t))]
                /\ pc' = "raised"
                /\ err' = "copytree failed"
                /\ UNCHANGED copied
    /\ UNCHANGED <<fn, args, result, tmp_dir, SHELL, sub, locals>>
    /\ UNCHANGED streamVars

\* lines 727-739: focmec gets its 'Call', and nothing else
BoundFocmec(d) == Put(d, "Call", "Call focmec")

\* lines 676-741: hyp_2000 gets HYP2000_DATA (line 677), its 'PreCall' and
\* its 'Call' (lines 686, 698); nlloc gets its 'PreCall' and its 'Call'
\* (lines 708, 725); focmec is bound (lines 727-739); tmp_dir is returned
SetupBind ==
    /\ fn = "setup_external_programs" /\ pc = "bind"
    /\ PROGRAMS' = [PROGRAMS EXCEPT
           !["hyp_2000"] =
               Put(Put(Put(@, "env", @["env"] \cup {"HYP2000_DATA"}),
                       "PreCall", "PreCall hyp_2000"), "Call", "Call hyp_2000"),
           !["nlloc"] = Put(Put(@, "PreCall", "PreCall nlloc"), "Call", "Call nlloc"),
           !["focmec"] = BoundFocmec(@)]
    /\ pc' = "done"
    /\ result' = tmp_dir
    /\ UNCHANGED <<fn, err, args, tmp_dir, SHELL, copied, sub, locals>>
    /\ UNCHANGED streamVars

\* ------------------------------------------ the 'Call' of a tool

\* most lines a program writes to its standard output, and to its standard
\* error
MaxOutput == 3

\* the number of lines a pipe holds before a write to it blocks
PipeCapacity == 2

\* the caller calls PROGRAMS[tool]['Call'](PROGRAMS[tool]) after the setup.
\* What the call finds: whether the executable can be started, whether the
\* control file of hyp_2000 can be read, how many lines the program writes
\* and the status it exits with.  In place of a program that cannot be
\* started a shell reports that on standard error and exits with status 1.
CallTool ==
    /\ fn = "setup_external_programs" /\ pc = "done"
    /\ fn' = "Call"
    /\ pc' = "popen"
    /\ \E c \in [tool : Tools, startable : BOOLEAN, control : BOOLEAN,
                 out : 0..MaxOutput, errout : 0..MaxOutput, status : {0, 1}] :
          /\ c.tool # "hyp_2000" => c.control
          /\ ~c.startable => c.out = 0 /\ c.errout = 1 /\ c.status = 1
          /\ args' = [tool |-> c.tool, startable |-> c.startable,
                      control |-> c.control, out |-> c.out,
                      errout |-> c.errout, status |-> c.status,
                      system |-> args.system]
    /\ result' = <<>>
    /\ locals' = [msg |-> 0, err |-> 0, returncode |-> <<>>]
    /\ UNCHANGED <<err, tmp_dir, PROGRAMS, SHELL, copied, sub>>
    /\ UNCHANGED streamVars

\* lines 687-690, 709-711, 729-731: Popen raises OSError for an executable
\* that cannot be started, unless a shell is started in its place (shell =
\* SHELL); else the process runs, and its returncode is None (<<>>) until it
\* has been waited for
CallPopen ==
    /\ fn = "Call" /\ pc = "popen"
    /\ IF ~args.startable /\ ~SHELL
       THEN /\ pc' = "raised"
            /\ err' = "OSError"
            /\ UNCHANGED sub
       ELSE /\ sub' = [state |-> "running", out |-> args.out,
                       errout |-> args.errout, stdout |-> 0, stderr |-> 0,
                       status |-> args.status, returncode |-> <<>>]
            /\ pc' = IF args.tool = "hyp_2000" THEN "control" ELSE "returncode"
            /\ UNCHANGED err
    /\ UNCHANGED <<fn, args, result, tmp_dir, PROGRAMS, SHELL, copied, locals>>
    /\ UNCHANGED streamVars

\* line 691: open(prog_dict['files']['control'], "rt").read()
CallReadControl ==
    /\ fn = "Call" /\ pc = "control"
    /\ IF args.control
       THEN pc' = "communicate" /\ UNCHANGED err
       ELSE pc' = "raised" /\ err' = "IOError"
    /\ UNCHANGED <<fn, args, result, tmp_dir, PROGRAMS, SHELL, copied, sub,
                   locals>>
    /\ UNCHANGED streamVars

\* the program writes a line to its standard output or to its standard
\* error, unless that pipe is full
ProcWrite ==
    /\ sub # <<>> /\ sub.state = "running"
    /\ \E p \in {<<"out", "stdout">>, <<"errout", "stderr">>} :
          /\ sub[p[1]] > 0 /\ sub[p[2]] < PipeCapacity
          /\ sub' = [sub EXCEPT ![p[1]] = @ - 1, ![p[2]] = @ + 1]
    /\ UNCHANGED <<fn, pc, err, args, result, tmp_dir, PROGRAMS, SHELL,
                   copied, locals>>
    /\ UNCHANGED streamVars

\* the program has written all it has to write and exits
ProcExit ==
    /\ sub # <<>> /\ sub.state = "running"
    /\ sub.out = 0 /\ sub.errout = 0
    /\ sub' = [sub EXCEPT !.state = "exited"]
    /\ UNCHANGED <<fn, pc, err, args, result, tmp_dir, PROGRAMS, SHELL,
                   copied, locals>>
    /\ UNCHANGED streamVars

\* a pipe is at its end: the program has exited and nothing is left in it
AtEOF(pipe) == sub.state = "exited" /\ sub[pipe] = 0

\* line 692: sub.communicate(input) reads both pipes as they fill, until
\* both are at their end, then waits for the process
CallCommunicate ==
    /\ fn = "Call" /\ pc = "communicate"
    /\ \/ /\ sub.stdout + sub.stderr > 0
          /\ locals' = [locals EXCEPT !.msg = @ + sub.stdout,
                                      !.err = @ + sub.stderr]
          /\ sub' = [sub EXCEPT !.stdout = 0, !.stderr = 0]
          /\ UNCHANGED pc
       \/ /\ AtEOF("stdout") /\ AtEOF("stderr")
          /\ sub' = [sub EXCEPT !.returncode = <<sub.status>>]
          /\ pc' = "returncode"
          /\ UNCHANGED locals
    /\ UNCHANGED <<fn, err, args, result, tmp_dir, PROGRAMS, SHELL, copied>>
    /\ UNCHANGED streamVars

\* lines 693-696, 712-715, 732-735: on Darwin the attribute sub.returncode
\* is read as it is; elsewhere sub.wait() returns once the process has exited
CallReturncode ==
    /\ fn = "Call" /\ pc = "returncode"
    /\ \/ /\ args.system = "Darwin"
          /\ locals' = [locals EXCEPT !.returncode = sub.returncode]
          /\ UNCHANGED sub
       \/ /\ args.system # "Darwin"
          /\ sub.state = "exited"
          /\ locals' = [locals EXCEPT !.returncode = <<sub.status>>]
          /\ sub' = [sub EXCEPT !.returncode = <<sub.status>>]
    /\ pc' = IF args.tool = "hyp_2000" THEN "return" ELSE "read_stdout"
    /\ UNCHANGED <<fn, err, args, result, tmp_dir, PROGRAMS, SHELL, copied>>
    /\ UNCHANGED streamVars

\* lines 716-717, 736-737: sub.stdout.readlines(), then
\* sub.stderr.readlines(); each reads until the end of its pipe
CallReadlines ==
    /\ fn = "Call" /\ pc \in {"read_stdout", "read_stderr"}
    /\ LET pipe == IF pc = "read_stdout" THEN "stdout" ELSE "stderr"
           into == IF pc = "read_stdout" THEN "msg" ELSE "err"
       IN  \/ /\ sub[pipe] > 0
              /\ locals' = [locals EXCEPT ![into] = @ + sub[pipe]]
              /\ sub' = [sub EXCEPT ![pipe] = 0]
              /\ UNCHANGED pc
           \/ /\ AtEOF(pipe)
              /\ pc' = IF pc = "read_stdout" THEN "read_stderr" ELSE "return"
              /\ UNCHANGED <<sub, locals>>
    /\ UNCHANGED <<fn, err, args, result, tmp_dir, PROGRAMS, SHELL, copied>>
    /\ UNCHANGED streamVars

\* lines 697, 718-724, 738: (nlloc renames its output files and) the triple
\* (msg, err, returncode) is returned
CallReturn ==
    /\ fn = "Call" /\ pc = "return"
    /\ result' = <<locals.msg, locals.err, locals.returncode>>
    /\ pc' = "done"
    /\ UNCHANGED <<fn, err, args, tmp_dir, PROGRAMS, SHELL, copied, sub,
                   locals>>
    /\ UNCHANGED streamVars

NextPrograms ==
    \/ SetupIsdir
    \/ SetupMkdtemp
    \/ SetupProgram
    \/ SetupBind
    \/ CallTool
    \/ CallPopen
    \/ CallReadControl
    \/ CallCommunicate
    \/ CallReturncode
    \/ CallReadlines
    \/ CallReturn
    \/ ProcWrite
    \/ ProcExit

SpecPrograms == InitSetup /\ [][NextPrograms]_vars

\* ----------------------------------------- fetch_waveforms_with_metadata

\* most identifiers in options.seishub_ids, and in options.arclink_ids
MaxIds == 2

\* line 385: any([char in sta_wildcard for char in "*?[]"])
IsWildcard(pattern) == pattern = "R*"

\* line 386: sorted(client.waveform.getStationIds(network=net)), as the
\* server replies when it does
StationIds == <<"MANZ", "RJOB", "ROTZ">>

\* line 387: fnmatch.fnmatch(sta, sta_wildcard)
FnMatch(sta, pattern) ==
    IF pattern = "R*" THEN sta \in {"RJOB", "ROTZ"} ELSE sta = pattern

\* lines 386-388: the stations of the server's list the pattern matches
Expanded(pattern) ==
    Filter(StationIds,
           {k \in 1..Len(StationIds) : FnMatch(StationIds[k], pattern)})

\* a group (Stream) as a source delivers it
Group(sta, format) == [net_sta |-> <<"BW", sta>>, format |-> format]

\* a call of fetch_waveforms_with_metadata(options); lines 335-337.  The
\* options: the groups the local files hold, the identifiers to fetch from
\* SeisHub (stations of network BW: two stations and a wildcard) and via
\* ArcLink.  stdout holds the lines the function prints about the stations.
InitFetch ==
    /\ fn = "fetch_waveforms_with_metadata"
    /\ pc = "local"
    /\ args \in [local : {<<>>, <<Group("RJOB", "MSEED")>>},
                 seishub_ids : SeqsUpTo({"RJOB", "ROTZ", "R*"}, MaxIds),
                 arclink_ids : SeqsUpTo({"RJOB", "ROTZ"}, MaxIds)]
    /\ result = <<>>
    /\ locals = [streams |-> <<>>, clients |-> {}, sta_fetched |-> {},
                 ids |-> <<>>, stations_to_fetch |-> <<>>, stdout |-> <<>>]
    /\ tmp_dir = <<>>
    /\ PROGRAMS = <<>>
    /\ SHELL = "unset"
    /\ copied = {}
    /\ sub = <<>>
    /\ StreamsIdle

\* lines 338-382: the groups of the local files; the SeisHub section is
\* entered if there are identifiers
FetchLocal ==
    /\ fn = "fetch_waveforms_with_metadata" /\ pc = "local"
    /\ locals' = [locals EXCEPT !.streams = args.local,
                                !.ids = args.seishub_ids]
    /\ pc' = IF args.seishub_ids = <<>> THEN "arclink" ELSE "seishub_id"
    /\ UNCHANGED <<fn, err, args, result, tmp_dir, PROGRAMS, SHELL, copied, sub>>
    /\ UNCHANGED streamVars

\* lines 382-390, 416: one pass of the loop over the identifiers.  The loop
\* has ended (line 416); or the stations of the next identifier are listed
\* (lines 383-390); or the request for the station list of line 386, which
\* no try encloses, fails.
FetchSeishubId ==
    /\ fn = "fetch_waveforms_with_metadata" /\ pc = "seishub_id"
    /\ \/ /\ locals.ids = <<>>
          /\ locals' = [locals EXCEPT !.clients = @ \cup {"SeisHub"}]
          /\ pc' = "arclink"
          /\ UNCHANGED err
       \/ /\ locals.ids # <<>>
          /\ locals' = [locals EXCEPT
                 !.ids = Tail(@),
                 !.stations_to_fetch =
                     IF IsWildcard(Head(locals.ids))
                     THEN Expanded(Head(locals.ids))
                     ELSE <<Head(locals.ids)>>]
          /\ pc' = "seishub_sta"
          /\ UNCHANGED err
       \/ /\ locals.ids # <<>> /\ IsWildcard(Head(locals.ids))
          /\ pc' = "raised"
          /\ err' = "getStationIds failed"
          /\ UNCHANGED locals
    /\ UNCHANGED <<fn, args, result, tmp_dir, PROGRAMS, SHELL, copied, sub>>
    /\ UNCHANGED streamVars

\* a successful fetch is not recorded in sta_fetched
RequestedUnrecorded(source, sta, ok) ==
    LET id == <<"BW", sta>>
        Line(what) == [source |-> source, net_sta |-> id, what |-> what]
    IN  IF ok
        THEN [locals EXCEPT
                 !.streams = Append(@, Group(sta, source)),
                 !.stdout = Append(@, Line("fetched"))]
        ELSE [locals EXCEPT
                 !.stdout = Append(@, Line("server replied"))]

\* lines 391, 429: a station is the next to fetch from a source.  It is
\* skipped if it was fetched before (lines 395-397, 432-434); else the
\* waveforms are requested: if the request succeeds the station is recorded
\* and its group appended (lines 399-405 and 411-415, 436-444 and 449-451),
\* if it raises the station is skipped (lines 406-410, 445-448).
Requested(source, sta, ok) ==
    LET id == <<"BW", sta>>
        Line(what) == [source |-> source, net_sta |-> id, what |-> what]
    IN  IF id \in locals.sta_fetched
        THEN [locals EXCEPT
                 !.stdout = Append(@, Line("already retrieved"))]
        ELSE IF ok
        THEN [locals EXCEPT
                 !.sta_fetched = @ \cup {id},
                 !.streams = Append(@, Group(sta, source)),
                 !.stdout = Append(@, Line("fetched"))]
        ELSE [locals EXCEPT
                 !.stdout = Append(@, Line("server replied"))]

\* lines 391-415: one pass of the loop over stations_to_fetch
FetchSeishubStation ==
    /\ fn = "fetch_waveforms_with_metadata" /\ pc = "seishub_sta"
    /\ \/ /\ locals.stations_to_fetch = <<>>
          /\ pc' = "seishub_id"
          /\ UNCHANGED locals
       \/ /\ locals.stations_to_fetch # <<>>
          /\ \E ok \in BOOLEAN :
                locals' = [Requested("SeisHub",
                                     Head(locals.stations_to_fetch), ok)
                              EXCEPT !.stations_to_fetch = Tail(@)]
          /\ UNCHANGED pc
    /\ UNCHANGED <<fn, err, args, result, tmp_dir, PROGRAMS, SHELL, copied, sub>>
    /\ UNCHANGED streamVars

\* lines 418-429: the ArcLink section is entered if there are identifiers
FetchArclink ==
    /\ fn = "fetch_waveforms_with_metadata" /\ pc = "arclink"
    /\ locals' = [locals EXCEPT !.ids = args.arclink_ids]
    /\ pc' = IF args.arclink_ids = <<>> THEN "return" ELSE "arclink_id"
    /\ UNCHANGED <<fn, err, args, result, tmp_dir, PROGRAMS, SHELL, copied, sub>>
    /\ UNCHANGED streamVars

\* lines 429-452: one pass of the loop over the identifiers
FetchArclinkId ==
    /\ fn = "fetch_waveforms_with_metadata" /\ pc = "arclink_id"
    /\ \/ /\ locals.ids = <<>>
          /\ locals' = [locals EXCEPT !.clients = @ \cup {"ArcLink"}]
          /\ pc' = "return"
       \/ /\ locals.ids # <<>>
          /\ \E ok \in BOOLEAN :
                locals' = [Requested("ArcLink", Head(locals.ids), ok)
                              EXCEPT !.ids = Tail(@)]
          /\ UNCHANGED pc
    /\ UNCHANGED <<fn, err, args, result, tmp_dir, PROGRAMS, SHELL, copied, sub>>
    /\ UNCHANGED streamVars

\* lines 453-454
FetchReturn ==
    /\ fn = "fetch_waveforms_with_metadata" /\ pc = "return"
    /\ result' = <<locals.clients, locals.streams>>
    /\ pc' = "done"
    /\ UNCHANGED <<fn, err, args, locals, tmp_dir, PROGRAMS, SHELL, copied, sub>>
    /\ UNCHANGED streamVars

NextFetch ==
    \/ FetchLocal
    \/ FetchSeishubId
    \/ FetchSeishubStation
    \/ FetchArclink
    \/ FetchArclinkId
    \/ FetchReturn

SpecFetch == InitFetch /\ [][NextFetch]_vars

\* -------------------------------------------------------- get_event_info

\* most events the server returns
MaxEvents == 3

\* line 1001: getTravelTimes(dist, depth), the travel times of the phases to
\* a station, here fixed per station
TravelTimes(sta) == IF sta = "RJOB" THEN <<2>> ELSE <<4, 6>>

\* lines 1003-1007: the arrival times of an event at a station that lie
\* strictly inside (starttime, endtime), in the order of the phases
Arrivals(ev, sta) ==
    LET tts  == TravelTimes(sta)
        time == [k \in 1..Len(tts) |-> ev.time + tts[k]]
    IN  Filter(time, {k \in 1..Len(tts) :
                         args.starttime < time[k] /\ time[k] < args.endtime})

\* lines 990-1007: has_arrivals after the loop over the streams
HasArrivals(ev) ==
    \E k \in 1..Len(args.streams) : Arrivals(ev, args.streams[k]) # <<>>

\* a call of get_event_info(starttime, endtime, streams), and what it
\* finds: whether the request for the events fails, the events the server
\* returns (each with its origin time, or without any origin), the stations
\* of the streams
InitEvents ==
    /\ fn = "get_event_info"
    /\ pc = "get_events"
    /\ \E n \in 0..MaxEvents :
          \E time \in [1..n -> {0, 1, 3}], origins \in [1..n -> BOOLEAN] :
             args \in [starttime : {2}, endtime : {5, 6},
                       streams : {<<>>, <<"RJOB">>, <<"RJOB", "ROTZ">>},
                       fails : BOOLEAN,
                       catalog : {[k \in 1..n |->
                                      [id |-> k, time |-> time[k],
                                       origins |-> origins[k]]]}]
    /\ result = <<>>
    /\ locals = [events |-> <<>>, arrivals |-> <<>>, todo |-> <<>>]
    /\ tmp_dir = <<>>
    /\ PROGRAMS = <<>>
    /\ SHELL = "unset"
    /\ copied = {}
    /\ sub = <<>>
    /\ StreamsIdle

\* lines 983-989: the events are requested; the loop is over a reversed
\* copy of the list (events[::-1]).  An exception is caught at line 1010 and
\* (None, None, msg) returned.
GetEvents ==
    /\ fn = "get_event_info" /\ pc = "get_events"
    /\ IF args.fails
       THEN /\ result' = <<"None", "None", "Problem while fetching events">>
            /\ pc' = "done"
            /\ UNCHANGED locals
       ELSE /\ locals' = [locals EXCEPT !.events = args.catalog,
                                        !.todo = Reverse(args.catalog)]
            /\ pc' = "event"
            /\ UNCHANGED result
    /\ UNCHANGED <<fn, err, args, tmp_dir, PROGRAMS, SHELL, copied, sub>>
    /\ UNCHANGED streamVars

\* lines 989-1014: one pass of the loop over the events, or its end.  An
\* event without origin makes ev.origins[0] raise (line 991); else the
\* arrivals inside the window are appended to the lists of the stations
\* (lines 1002-1007) and, for an event without any, the last element of the
\* list is dropped (lines 1008-1009: events[:] = events[:-1]).
EventPass ==
    /\ fn = "get_event_info" /\ pc = "event"
    /\ IF locals.todo = <<>>
       THEN /\ result' = <<locals.events, locals.arrivals, "None">>
            /\ pc' = "done"
            /\ UNCHANGED locals
       ELSE LET ev == Head(locals.todo)
            IN  IF ~ev.origins
                THEN /\ result' = <<"None", "None",
                                    "Problem while fetching events">>
                     /\ pc' = "done"
                     /\ UNCHANGED locals
                ELSE /\ locals' =
                          [todo |-> Tail(locals.todo),
                           arrivals |->
                               [sta \in DOMAIN locals.arrivals \cup
                                        {args.streams[k] :
                                            k \in 1..Len(args.streams)} |->
                                   (IF sta \in DOMAIN locals.arrivals
                                    THEN locals.arrivals[sta] ELSE <<>>)
                                   \o (IF \E k \in 1..Len(args.streams) :
                                             args.streams[k] = sta
                                       THEN Arrivals(ev, sta) ELSE <<>>)],
                           events |->
                               IF HasArrivals(ev) THEN locals.events
                               ELSE SubSeq(locals.events, 1,
                                           Len(locals.events) - 1)]
                     /\ UNCHANGED <<pc, result>>
    /\ UNCHANGED <<fn, err, args, tmp_dir, PROGRAMS, SHELL, copied, sub>>
    /\ UNCHANGED streamVars

SpecEvents == InitEvents /\ [][GetEvents \/ EventPass]_vars

\* ------------------------------------------- check_keybinding_conflicts

\* a key bound to a functionality at the top level of the table
Bound(k) == [dict |-> FALSE, item |-> k]

\* lines 234-241: the table KEYS.  A nested table (a dict) maps keys to
\* values, which are ints (the weights) or strings.
KEYS ==
    LET Int_(n) == [type |-> "int", val |-> n]
        Str_(s) == [type |-> "str", val |-> s]
    IN  [setPick |-> Bound("a"), setPickError |-> Bound("s"),
         delPick |-> Bound("q"),
         setMagMin |-> Bound("a"), setMagMax |-> Bound("s"),
         delMagMinMax |-> Bound("q"),
         switchPhase |-> Bound("control"),
         prevStream |-> Bound("y"), nextStream |-> Bound("x"),
         switchWheelZoomAxis |-> Bound("shift"),
         setWeight |-> [dict |-> TRUE,
                        item |-> [k \in {"0", "1", "2", "3"} |->
                                     CASE k = "0" -> Int_(0) [] k = "1" -> Int_(1)
                                       [] k = "2" -> Int_(2) [] k = "3" -> Int_(3)]],
         setPol |-> [dict |-> TRUE,
                     item |-> [k \in {"u", "d", "-", "+"} |->
                                  IF k \in {"u", "+"} THEN Str_("positive")
                                  ELSE Str_("negative")]],
         setOnset |-> [dict |-> TRUE,
                       item |-> [k \in {"i", "e"} |->
                                    IF k = "i" THEN Str_("impulsive")
                                    ELSE Str_("emergent")]]]

\* line 311: str(v)
Str(v) ==
    IF v.type = "str" THEN v.val
    ELSE CASE v.val = 0 -> "0" [] v.val = 1 -> "1"
           [] v.val = 2 -> "2" [] v.val = 3 -> "3"

\* line 311: "_".join([key, str(v)]); a name is the sequence of its parts
NestedName(key, v) == <<key, Str(v)>>

\* lines 306-313: tmp_keys2 once tmp_keys is empty.  The entries of a nested
\* table are popped in the dict's arbitrary order; of the keys of a table
\* that have the same value the one popped last stays (line 311 assigns to
\* the same name again): last holds, per table, the keys that stay.
Flattened(tmp_keys, last) ==
    LET dicts == {n \in DOMAIN tmp_keys : tmp_keys[n].dict}
        names == {<<n>> : n \in DOMAIN tmp_keys \ dicts} \cup
                 UNION {{NestedName(n, tmp_keys[n].item[k]) :
                            k \in DOMAIN tmp_keys[n].item} : n \in dicts}
    IN  [nm \in names |->
            IF Len(nm) = 1 THEN tmp_keys[nm[1]].item
            ELSE CHOOSE k \in DOMAIN tmp_keys[nm[1]].item :
                     /\ NestedName(nm[1], tmp_keys[nm[1]].item[k]) = nm
                     /\ <<nm[1], k>> \in last]

\* a call of check_keybinding_conflicts(keys): KEYS with some of its
\* functionalities bound to other keys
InitKeys ==
    /\ fn = "check_keybinding_conflicts"
    /\ pc = "check"
    /\ \E pick \in {"a", "s"}, mag \in {"a", "y"}, del \in {"q", "s"},
          prev \in {"y", "u", "+", "i", "a"}, onset \in {"i", "u"} :
          args = [KEYS EXCEPT
                     !.setPick = Bound(pick),
                     !.setMagMin = Bound(mag),
                     !.delMagMinMax = Bound(del),
                     !.prevStream = Bound(prev),
                     !.setOnset.item =
                         [k \in {onset, "e"} |->
                             IF k = "e" THEN KEYS.setOnset.item["e"]
                             ELSE KEYS.setOnset.item["i"]]]
    /\ result = <<>>
    /\ locals = [ignored |-> <<{"setMagMin", "setMagMax", "delMagMinMax"},
                               {"setPick", "setPickError", "delPick"}>>,
                 tmp_keys2 |-> <<>>]
    /\ tmp_dir = <<>>
    /\ PROGRAMS = <<>>
    /\ SHELL = "unset"
    /\ copied = {}
    /\ sub = <<>>
    /\ StreamsIdle

\* lines 300-316: one pass of the loop over the two lists of ignored
\* functionalities: the table is copied (line 302), the ignored ones are
\* popped from the copy (lines 304-305), the rest is flattened (lines
\* 306-313), and the function raises if there are fewer distinct keys than
\* names (lines 314-316)
CheckPass ==
    /\ fn = "check_keybinding_conflicts" /\ pc = "check"
    /\ LET tmp_keys == [n \in DOMAIN args \ Head(locals.ignored) |-> args[n]]
           nested   == {<<n, k>> : n \in {m \in DOMAIN tmp_keys : tmp_keys[m].dict},
                                   k \in {"0", "1", "2", "3", "u", "d", "-",
                                          "+", "i", "e"}}
       IN  \E last \in SUBSET {p \in nested : p[2] \in DOMAIN tmp_keys[p[1]].item} :
              /\ \A p \in last : \A q \in last :
                    ( /\ p[1] = q[1]
                      /\ tmp_keys[p[1]].item[p[2]] = tmp_keys[q[1]].item[q[2]] )
                    => p = q
              /\ \A n \in DOMAIN tmp_keys : tmp_keys[n].dict =>
                    \A k \in DOMAIN tmp_keys[n].item : \E p \in last :
                        /\ p[1] = n
                        /\ tmp_keys[n].item[p[2]] = tmp_keys[n].item[k]
              /\ LET tmp_keys2 == Flattened(tmp_keys, last)
                 IN  /\ locals' = [ignored |-> Tail(locals.ignored),
                                   tmp_keys2 |-> tmp_keys2]
                     /\ IF Cardinality(DOMAIN tmp_keys2) #
                           Cardinality({tmp_keys2[nm] : nm \in DOMAIN tmp_keys2})
                        THEN /\ pc' = "raised"
                             /\ err' = "Interfering keybindings"
                        ELSE /\ pc' = IF Tail(locals.ignored) = <<>>
                                      THEN "done" ELSE pc
                             /\ UNCHANGED err
    /\ UNCHANGED <<fn, args, result, tmp_dir, PROGRAMS, SHELL, copied, sub>>
    /\ UNCHANGED streamVars

SpecKeys == InitKeys /\ [][CheckPass]_vars

\* ================================================================ claims
\* ================================================================ claims

\* --- definitions the claims are stated with

\* the channel suffixes of a group, in order
Suffixes(st) == [k \in 1..Len(st) |-> Component(st[k])]

\* one Z trace, or three traces Z, N, E in that order
OneZOrZNE(st) == Suffixes(st) \in {<<"Z">>, <<"Z", "N", "E">>}

\* the network.station pairs of the traces of a group
Identities(st) == {NetSta(st[k]) : k \in 1..Len(st)}

\* merge_check_and_cleanup_streams has returned
Returned == fn = MERGE_CHECK /\ pc = "done"

\* the diagnostics of one kind in the warning text
DiagsOfKind(kind) == {k \in 1..Len(warn_msg) : warn_msg[k].kind = kind}

\* a group with its detrend marks cleared (the samples are not compared)
Undetrended(st) == [k \in 1..Len(st) |-> [st[k] EXCEPT !.detrended = "none"]]

UndetrendedAll(c) == [k \in 1..Len(c) |-> Undetrended(c[k])]

\* C1 (as claimed): once merge_check_and_cleanup_streams has returned, every
\* group of the collection is one Z trace or three traces Z, N, E in that
\* order, and no two groups have the same network.station.
C1_ReturnedGroupsConform ==
    Returned =>
        /\ \A k \in 1..Len(streams) : OneZOrZNE(streams[k])
        /\ \A j, k \in 1..Len(streams) :
               j # k => Identities(streams[j]) \cap Identities(streams[k]) = {}

\* C2 (as claimed): a group whose network.station was already accepted in
\* this pass is removed, one diagnostic is appended, the accepted identities
\* stay as they are and no error is raised.
C2_DuplicateDiscarded ==
    [][ ( /\ fn = MERGE_CHECK /\ pc = "check"
          /\ Cardinality(Identities(Cur)) = 1
          /\ Identities(Cur) \subseteq sta_list )
        => /\ pc' # "raised"
           /\ streams' = ListRemove(streams, Cur)
           /\ Len(warn_msg') = Len(warn_msg) + 1
           /\ sta_list' = sta_list ]_vars

\* C3 (as claimed): the second run, on the collection the first run returned
\* and with the same options, returns; it returns that collection with no
\* group removed, an empty warning text and an empty merge hint.  (A detrend
\* that fails for a reason of its own is not held against the claim.)
C3_SecondRunIdempotent ==
    (fn = MERGE_CHECK /\ run = "second") =>
        /\ pc = "raised" => err = "detrend failed"
        /\ pc = "done" =>
              /\ Len(streams) = Len(input)
              /\ UndetrendedAll(streams) = UndetrendedAll(input)
              /\ warn_msg = <<>>
              /\ merge_msg = <<>>

\* all of the metadata the claim names is present in a group
MetadataComplete(st) ==
    /\ \A k \in 1..Len(st) :
           Component(st[k]) = "Z" =>
               {"coordinates", "longitude", "latitude", "elevation", "paz"}
                   \subseteq st[k].meta
    /\ Len(st) = 3 =>
           \A k \in 1..Len(st) :
               Component(st[k]) \in {"N", "E"} => "paz" \in st[k].meta

\* C4 (as claimed): when cleanup_streams has returned and the options do not
\* disable metadata, the groups it kept are exactly the groups it was given
\* that have complete metadata, in their order.
C4_IncompleteMetadataRemoved ==
    (fn = CLEANUP /\ pc = "done" /\ ~nometadata) =>
        streams = Filter(input, {k \in 1..Len(input) : MetadataComplete(input[k])})

\* C5 (as claimed): when detrending a group fails on masked values, the
\* diagnostic appended names the network.station of that group, and the loop
\* goes on to the next group.
C5_MaskedDiagNamesGroup ==
    [][ ( /\ fn = MERGE_CHECK /\ pc = "demean" /\ pc' # "raised"
          /\ \E k \in 1..Len(streams[i + 1]) : streams[i + 1][k].masked )
        => /\ Len(warn_msg') = Len(warn_msg) + 1
           /\ Last(warn_msg').kind = "masked"
           /\ {Last(warn_msg').id} = Identities(streams[i + 1])
           /\ i' = i + 1 ]_vars

\* the "overwrite" loop of lines 479-488 is about to run
OverwriteStep == fn = MERGE_CHECK /\ pc = "merge_option" /\ merge = "overwrite"

RECURSIVE MissingSorted(_)
\* the numbers of samples missing between the traces of one id, over the
\* sorted traces s: a trace that starts more than one sample after the last
\* sample covered so far leaves a gap; overlapping traces leave none
MissingSorted(s) ==
    IF Len(s) <= 1 THEN <<>>
    ELSE IF TraceId(s[1]) = TraceId(s[2])
         THEN (IF s[2].starttime > s[1].endtime + 1
               THEN <<s[2].starttime - s[1].endtime - 1>> ELSE <<>>)
              \o MissingSorted(<<Joined(s[1], s[2], FALSE, FALSE)>> \o Tail(Tail(s)))
         ELSE MissingSorted(Tail(s))

\* the gaps of a group, by their numbers of samples
Missing(st) == MissingSorted(SortAscending(st))

\* a group has a gap of fewer than 5 samples
SomeShortGap(st) ==
    LET g == Missing(st) IN \E k \in 1..Len(g) : g[k] < 5

\* getGaps lists something for the group, a gap or an overlap, and nothing
\* it lists has 5 or more samples
OnlyShortEntries(st) ==
    LET g == GapSamples(st) IN g # <<>> /\ \A k \in 1..Len(g) : g[k] < 5

\* the interpolation diagnostics of the groups of c whose index is in S, each
\* naming the network.station of the first trace of its group
InterpolationDiags(c, S) ==
    LET sel == Filter(c, S)
    IN  [k \in 1..Len(sel) |->
            [kind |-> "interpolated", id |-> NetSta(sel[k][1]), chans |-> <<>>]]

SomeInterpolated(st) == \E k \in 1..Len(st) : st[k].interpolated

\* C6 (as claimed): under "overwrite" a group is interpolated, with a
\* diagnostic naming it, whenever it has a gap shorter than 5 samples, also
\* when it has a longer gap as well; a group without such a gap, one without
\* any gap included, is not interpolated and gets no such diagnostic.
C6_ShortGapsInterpolated ==
    [][ OverwriteStep =>
          /\ warn_msg' = warn_msg \o
                InterpolationDiags(streams,
                    {k \in 1..Len(streams) : SomeShortGap(streams[k])})
          /\ \A k \in 1..Len(streams) :
                SomeInterpolated(streams'[k]) <=>
                    (SomeShortGap(streams[k]) \/ SomeInterpolated(streams[k])) ]_vars

\* what lines 480-488 do: the diagnostic is appended for the groups for
\* which getGaps lists gaps or overlaps of fewer than 5 samples only, and of
\* these the ones that have a gap are interpolated; a group for which getGaps
\* lists 5 or more samples once is not interpolated, nor is one with no gap
OverwritePerGroup ==
    [][ OverwriteStep =>
          /\ warn_msg' = warn_msg \o
                InterpolationDiags(streams,
                    {k \in 1..Len(streams) : OnlyShortEntries(streams[k])})
          /\ \A k \in 1..Len(streams) :
                SomeInterpolated(streams'[k]) <=>
                    \/ OnlyShortEntries(streams[k]) /\ Missing(streams[k]) # <<>>
                    \/ SomeInterpolated(streams[k]) ]_vars

\* the "overwrite" loop has run on a group whose traces overlap and leave no
\* gap: the diagnostic names the group and nothing of it is interpolated
OverlapReported ==
    /\ fn = MERGE_CHECK /\ pc = "sort" /\ merge = "overwrite" /\ run = "first"
    /\ \E k \in 1..Len(input) :
           /\ Missing(input[k]) = <<>> /\ GapSamples(input[k]) = <<3>>
           /\ ~SomeInterpolated(streams[k])
           /\ \E d \in DiagsOfKind("interpolated") :
                  warn_msg[d].id = NetSta(input[k][1])

\* the "overwrite" loop has run on a group with a gap of 4 samples, which is
\* interpolated, and on one with a gap of 5, which is not
LimitReached ==
    /\ fn = MERGE_CHECK /\ pc = "sort" /\ merge = "overwrite" /\ run = "first"
    /\ \E j, k \in 1..Len(input) :
           /\ Missing(input[j]) = <<4>> /\ SomeInterpolated(streams[j])
           /\ Missing(input[k]) = <<5>> /\ ~SomeInterpolated(streams[k])

\* the check loop is at a group of three traces that are not Z, N, E in order
AtThreeNotZNE ==
    /\ fn = MERGE_CHECK /\ pc = "check"
    /\ Len(Cur) = 3 /\ Suffixes(Cur) # <<"Z", "N", "E">>

\* the diagnostics a step appended to the warning text
Appended == SubSeq(warn_msg', Len(warn_msg) + 1, Len(warn_msg'))

\* C7 (as claimed): every group that reaches the check loop with three traces
\* that are not Z, N, E in order is removed, and the warning text gains the
\* diagnostic of that reason.
C7_ThreeNotZNEDiscarded ==
    [][ AtThreeNotZNE =>
          /\ streams' = ListRemove(streams, Cur)
          /\ \E k \in 1..Len(Appended) : Appended[k].kind = "three_not_zne" ]_vars

\* C7 (amended): such a group is removed with the diagnostic of that reason,
\* naming it, when its traces are of one network.station that was not
\* accepted before; when its traces are of several identities it is removed
\* with the mixed-identity diagnostic; when its identity was accepted before,
\* the function raises and the group stays.
C7_ThreeNotZNEHandled ==
    [][ AtThreeNotZNE =>
          IF Cardinality(Identities(Cur)) > 1
          THEN /\ streams' = ListRemove(streams, Cur)
               /\ Len(Appended) = 1 /\ Appended[1].kind = "mixed"
          ELSE IF Identities(Cur) \subseteq sta_list
          THEN /\ pc' = "raised" /\ err' = "TypeError"
               /\ streams' = streams /\ warn_msg' = warn_msg
          ELSE /\ streams' = ListRemove(streams, Cur)
               /\ Len(Appended) = 2
               /\ Appended[1].kind = "three_not_zne"
               /\ {Appended[1].id} = Identities(Cur)
               /\ Appended[2].kind = "dump"
               /\ sta_list' = sta_list /\ merge_msg' = merge_msg
               /\ pc' # "raised" ]_vars

\* C7 witness: a group of three traces of one station, not Z, N, E, has just
\* been removed for that reason
C7_Witness ==
    /\ fn = MERGE_CHECK /\ pc \in {"check", "demean", "done"}
    /\ Len(warn_msg) >= 2
    /\ warn_msg[Len(warn_msg) - 1].kind = "three_not_zne"
    /\ Len(Last(warn_msg).chans) = 3
    /\ Len(streams) < Len(input)

\* a group is a single trace of channel suffix Z
SingleZ(st) == Suffixes(st) = <<"Z">>

\* the check loop treats a single Z trace whose identity was not accepted
\* before: the group stays as it is, nothing is recorded, it is accepted
SingleZAccepted ==
    ( /\ fn = MERGE_CHECK /\ pc = "check"
      /\ SingleZ(Cur) /\ Identities(Cur) \cap sta_list = {} )
    => /\ streams' = streams
       /\ warn_msg' = warn_msg /\ merge_msg' = merge_msg
       /\ sta_list' = sta_list \cup Identities(Cur)
       /\ pc' # "raised"

\* the single Z groups of the call's input that are the first of their
\* network.station are in the returned collection, unchanged but for detrend
SingleZPresent ==
    Returned =>
        \A k \in 1..Len(input) :
            ( /\ SingleZ(input[k])
              /\ \A j \in 1..(k - 1) :
                     Identities(input[j]) \cap Identities(input[k]) = {} )
            => \E j \in 1..Len(streams) :
                   Undetrended(streams[j]) = Undetrended(input[k])

\* the demean loop is at a group that was passed in as a single Z trace
DemeanOfInputSingleZ ==
    /\ fn = MERGE_CHECK /\ pc = "demean" /\ pc' # "raised"
    /\ SingleZ(streams[i + 1])
    /\ \E k \in 1..Len(input) :
           Undetrended(input[k]) = Undetrended(streams[i + 1])

\* C8 (as claimed): a group of one Z trace, the first of its identity, is in
\* the returned collection with the same trace, and neither the check loop
\* nor the demean loop records a diagnostic for it.
C8_SingleZKeptSilently ==
    /\ []SingleZPresent
    /\ [][ /\ SingleZAccepted
           /\ DemeanOfInputSingleZ =>
                 /\ warn_msg' = warn_msg
                 /\ Undetrended(streams'[i + 1]) = Undetrended(streams[i + 1])
       ]_vars

\* C8 (amended): ... and no diagnostic is recorded for it, except that the
\* demean loop records the masked-values diagnostic when the trace holds
\* masked values.
C8_SingleZKept ==
    /\ []SingleZPresent
    /\ [][ /\ SingleZAccepted
           /\ DemeanOfInputSingleZ =>
                 /\ IF streams[i + 1][1].masked
                    THEN /\ Len(Appended) = 1
                         /\ Appended[1].kind = "masked"
                    ELSE warn_msg' = warn_msg
                 /\ Undetrended(streams'[i + 1]) = Undetrended(streams[i + 1])
       ]_vars

\* C8 witness: a single Z trace was passed in, the function returned it
\* demeaned, and no diagnostic was recorded
C8_Witness ==
    /\ Returned /\ ~nozeromean /\ warn_msg = <<>>
    /\ \E k \in 1..Len(input) :
           /\ SingleZ(input[k])
           /\ input[k][1].detrended = "none"
           /\ \E j \in 1..Len(streams) :
                  streams[j] = <<[input[k][1] EXCEPT !.detrended = "constant"]>>

\* C9: the merge hint is there exactly when some group was discarded for its
\* number of traces (not 1 or 3 even without the unknown channels), and then
\* it is there once, however many groups were discarded for that.
C9_MergeHint ==
    /\ Len(merge_msg) <= 1
    /\ merge_msg # <<>> <=> DiagsOfKind("discarded_count") # {}

\* C9 witness: two groups were discarded for their number of traces and the
\* returned hint is there once
C9_Witness ==
    /\ Returned
    /\ Cardinality(DiagsOfKind("discarded_count")) = 2
    /\ Len(merge_msg) = 1

\* the error of lines 490-492 has been raised
UnrecognizedRaised ==
    fn = MERGE_CHECK /\ pc = "raised" /\
    err = "Unrecognized option for merging traces"

Coverage(st) ==
    UNION { {<<TraceId(st[k]), n>> : n \in st[k].starttime..st[k].endtime} :
            k \in 1..Len(st) }

\* no trace of the group continues without a gap the trace of its id that
\* comes before it when the traces are sorted by their start
NothingToJoin(st) ==
    LET s == SortAscending(st)
    IN  \A k \in 1..(Len(s) - 1) :
            TraceId(s[k]) = TraceId(s[k + 1])
                => s[k + 1].starttime # s[k].endtime + 1

Untouched(st) ==
    \A k \in 1..Len(st) : ~st[k].masked /\ ~st[k].interpolated

EllipsoidReturned == fn = "errorEllipsoid2CartesianErrors" /\ pc = "done"

\* axis 1 = (azimuth 0, dip 0, length 10), axis 2 = (azimuth 90, dip 0,
\* length 5), third length 3
KnownAxes ==
    [azimuth1 |-> 0, dip1 |-> 0, len1 |-> 10,
     azimuth2 |-> 90, dip2 |-> 0, len2 |-> 5, len3 |-> 3]

\* C11 (as claimed): for the two known axes and third length 3 the function
\* returns (error_x, error_y, error_z) = (10, 5, 3).
C11_KnownAxesTenFiveThree ==
    (EllipsoidReturned /\ args = KnownAxes) =>
        result = <<Num(10), Num(5), Num(3)>>

\* C11 (amended): with x = length*cos(dip)*sin(azimuth) and
\* y = length*cos(dip)*cos(azimuth), the axis of azimuth 0 lies along y and
\* the axis of azimuth 90 along x: the function returns (5, 10, 3).
C11_KnownAxesFiveTenThree ==
    (EllipsoidReturned /\ args = KnownAxes) =>
        result = <<Num(5), Num(10), Num(3)>>

\* C11 witness: the call with the known axes has returned (5, 10, 3)
C11_Witness ==
    /\ EllipsoidReturned /\ args = KnownAxes
    /\ result = <<Num(5), Num(10), Num(3)>>

\* C12 (as claimed): a call whose two axis vectors have a cross product of
\* zero magnitude (parallel axes, an axis of length 0) does not return a
\* triple: it fails with an error.
C12_DegenerateFails ==
    (fn = "errorEllipsoid2CartesianErrors" /\ pc # "call" /\ ParallelAxes(args)) =>
        /\ pc = "raised"
        /\ result = <<>>

\* the number of floats of the file leaves whole samples after the header
WellFormed(buffer) ==
    Len(buffer) >= HeaderLen /\ (Len(buffer) - HeaderLen) % SampleLen = 0

\* the sample count N of a well-formed file
SampleCount(buffer) == (Len(buffer) - HeaderLen) \div SampleLen

\* float c (1 = x, 2 = y, 3 = z, 4 = pdf) of sample k of a file
SampleFloat(buffer, k, c) == buffer[HeaderLen + (k - 1) * SampleLen + c]

\* C13: for a file of 4 header values and N samples the function returns
\* three sequences of length N; entry k of the first is the longitude of the
\* k-th x, of the second the latitude of the k-th y, of the third the k-th z;
\* header and pdf values have no part in it.
C13_ScatterSamples ==
    (fn = "readNLLocScatter" /\ pc # "call" /\ WellFormed(args)) =>
        /\ pc = "done"
        /\ Len(result) = 3
        /\ \A c \in 1..3 : Len(result[c]) = SampleCount(args)
        /\ \A k \in 1..SampleCount(args) :
               /\ result[1][k] = Lon(SampleFloat(args, k, 1))
               /\ result[2][k] = Lat(SampleFloat(args, k, 2))
               /\ result[3][k] = SampleFloat(args, k, 3)

\* C13 witness: a file of two samples that differ in x, y and z was decoded
C13_Witness ==
    /\ fn = "readNLLocScatter" /\ pc = "done" /\ Len(args) = HeaderLen + 2 * SampleLen
    /\ \A c \in 1..3 : Len(result[c]) = 2 /\ result[c][1] # result[c][2]
    /\ result[3] = <<SampleFloat(args, 1, 3), SampleFloat(args, 2, 3)>>

\* C14 (as claimed): every file whose number of floats is malformed, fewer
\* than the 4 header values included, is rejected with an error.
C14_MalformedRejected ==
    (fn = "readNLLocScatter" /\ pc # "call" /\ ~WellFormed(args)) =>
        /\ pc = "raised"
        /\ result = <<>>

\* setup_external_programs has returned
SetupReturned == fn = "setup_external_programs" /\ pc = "done"

\* C15 (as claimed): after setup_external_programs has returned, the
\* descriptor of each of the three tools holds 'PreCall' and 'Call' besides
\* its directory, its files and its environment.
C15_BothOperationsBound ==
    SetupReturned =>
        \A t \in Tools :
            {"dir", "files", "env", "PreCall", "Call"} \subseteq DOMAIN PROGRAMS[t]

\* what lines 685, 707 and 739 bind: every descriptor holds its directory,
\* its files, its environment and 'Call'; those of nlloc and hyp_2000 hold
\* 'PreCall' too, that of focmec does not
OperationsBound ==
    SetupReturned =>
        \A t \in Tools :
            /\ {"dir", "files", "env", "Call"} \subseteq DOMAIN PROGRAMS[t]
            /\ "PreCall" \in DOMAIN PROGRAMS[t] <=> t \in {"nlloc", "hyp_2000"}

\* C16 (as claimed): the 'Call' of a tool never raises, whatever fails while
\* the process is called.
C16_CallNeverRaises == fn = "Call" => pc # "raised"

\* C17: when options.pluginpath is not a directory the function raises
\* IOError and does nothing else: no scratch directory is made, nothing is
\* copied, PROGRAMS and SHELL are as they were.
C17_NoWorkWithoutPluginDir ==
    (fn = "setup_external_programs" /\ ~args.isdir) =>
        /\ pc \in {"isdir", "raised"}
        /\ pc = "raised" => err = "IOError: No such directory"
        /\ tmp_dir = <<>>
        /\ copied = {}
        /\ PROGRAMS = ProgramsAtImport
        /\ SHELL = "unset"

\* C17 witness: the function has raised for a plugin path that is no
\* directory
C17_Witness ==
    /\ fn = "setup_external_programs" /\ pc = "raised" /\ ~args.isdir
    /\ err = "IOError: No such directory"

\* the program has lines left to write and every pipe it could write to is
\* full
ProcBlocked ==
    /\ sub # <<>> /\ sub.state = "running"
    /\ sub.out > 0 \/ sub.errout > 0
    /\ sub.out > 0 => sub.stdout = PipeCapacity
    /\ sub.errout > 0 => sub.stderr = PipeCapacity

\* C19 (as claimed): in the 'Call' of nlloc and focmec on a platform other
\* than Darwin, the caller never waits for the exit of a program that is
\* blocked writing to a full pipe.
C19_NoWaitOnFullPipe ==
    ~ ( /\ fn = "Call" /\ pc = "returncode"
        /\ args.tool \in {"nlloc", "focmec"} /\ args.system # "Darwin"
        /\ ProcBlocked )

\* C20 (as claimed): the status a 'Call' returns is the exit status of the
\* process, on every platform.
C20_StatusOfExitedProcess ==
    (fn = "Call" /\ pc = "done") =>
        /\ sub.state = "exited"
        /\ result[3] = <<sub.status>>

\* the lines of stdout that report a successful fetch, in order
FetchedLines ==
    Filter(locals.stdout,
           {k \in 1..Len(locals.stdout) : locals.stdout[k].what = "fetched"})

\* the groups of the list that come after those of the local files
RemoteGroups ==
    IF pc = "local" THEN <<>>
    ELSE SubSeq(locals.streams, Len(args.local) + 1, Len(locals.streams))

RECURSIVE StationCount(_)
\* the number of stations a sequence of identifiers names
StationCount(ids) ==
    IF ids = <<>> THEN 0
    ELSE StationCount(Tail(ids)) +
         (IF IsWildcard(Head(ids)) THEN Len(Expanded(Head(ids))) ELSE 1)

\* the list holds, after the local groups, exactly the groups of the
\* successful fetches in the order of the requests; the stations recorded as
\* fetched are those; and when the function returns, every station of every
\* identifier of both sources has been dealt with
FetchBookkeeping ==
    /\ RemoteGroups =
           [k \in 1..Len(FetchedLines) |->
               Group(FetchedLines[k].net_sta[2], FetchedLines[k].source)]
    /\ locals.sta_fetched =
           {FetchedLines[k].net_sta : k \in 1..Len(FetchedLines)}
    /\ \A j, k \in 1..Len(locals.stdout) :
           ( /\ locals.stdout[j].source = "ArcLink"
             /\ locals.stdout[k].source = "SeisHub" ) => k < j
    /\ pc = "done" =>
           /\ result[2] = locals.streams
           /\ Len(locals.stdout) =
                  StationCount(args.seishub_ids) + StationCount(args.arclink_ids)

\* C18 (as claimed): a remote request that fails never aborts the
\* acquisition; the station of a failed fetch gets no group and is not
\* recorded as fetched, the later identifiers of both sources are still
\* dealt with, and the returned list holds exactly the groups of the
\* successful fetches in request order, SeisHub before ArcLink.
C18_FailedFetchSkipped ==
    fn = "fetch_waveforms_with_metadata" =>
        /\ pc # "raised"
        /\ FetchBookkeeping


\* when metadata fetching is disabled cleanup_streams removes no group: the
\* collection is, at every step and when the function returns, the one it
\* was called with
NothingRemoved ==
    (fn = CLEANUP /\ nometadata) => streams = input

\* C21 (as claimed): on every collection merge_check_and_cleanup_streams
\* returned, cleanup_streams completes without raising, and with nometadata
\* true it returns that collection with no group removed.
C21_CleanupCompletes ==
    fn = CLEANUP =>
        /\ pc # "raised"
        /\ NothingRemoved

\* cleanup_streams raises only on a collection that holds a group which is
\* neither one Z trace nor three traces Z, N, E
RaisesOnlyOnNonConforming ==
    (fn = CLEANUP /\ pc = "raised") =>
        \E k \in 1..Len(input) : ~OneZOrZNE(input[k])

\* C22: over the SeisHub identifiers (wildcards expanded) and then the
\* ArcLink identifiers, each network.station is fetched at most once: no two
\* successful fetches name the same station, every request that names a
\* station fetched before is skipped as already retrieved, and the list
\* holds at most one remotely fetched group per network.station.
C22_FetchedAtMostOnce ==
    fn = "fetch_waveforms_with_metadata" =>
        /\ \A j, k \in 1..Len(FetchedLines) :
               FetchedLines[j].net_sta = FetchedLines[k].net_sta => j = k
        /\ \A j, k \in 1..Len(locals.stdout) :
               ( /\ j < k
                 /\ locals.stdout[j].what = "fetched"
                 /\ locals.stdout[k].net_sta = locals.stdout[j].net_sta )
               => locals.stdout[k].what = "already retrieved"
        /\ \A j, k \in 1..Len(RemoteGroups) :
               RemoteGroups[j].net_sta = RemoteGroups[k].net_sta => j = k

\* C22 witness: the function has returned; a station fetched from SeisHub
\* through a wildcard was named again by a SeisHub identifier and by an
\* ArcLink identifier, and both were skipped as already retrieved
C22_Witness ==
    /\ fn = "fetch_waveforms_with_metadata" /\ pc = "done"
    /\ \E j, k, l \in 1..Len(locals.stdout) :
          /\ j < k /\ k < l
          /\ locals.stdout[j] =
                 [source |-> "SeisHub", net_sta |-> <<"BW", "RJOB">>,
                  what |-> "fetched"]
          /\ locals.stdout[k] =
                 [source |-> "SeisHub", net_sta |-> <<"BW", "RJOB">>,
                  what |-> "already retrieved"]
          /\ locals.stdout[l] =
                 [source |-> "ArcLink", net_sta |-> <<"BW", "RJOB">>,
                  what |-> "already retrieved"]
    /\ args.seishub_ids[1] = "R*"
    /\ Len(result[2]) = Len(args.local) + Len(FetchedLines)

\* get_event_info has returned
EventsReturned == fn = "get_event_info" /\ pc = "done"

\* an exception occurs in the call: the request for the events fails, or an
\* event has no origin
EventsException ==
    args.fails \/ \E k \in 1..Len(args.catalog) : ~args.catalog[k].origins

\* the positions of the fetched events that have an arrival strictly inside
\* (starttime, endtime) at some station
WithArrivals == {k \in 1..Len(args.catalog) : HasArrivals(args.catalog[k])}

\* when an exception occurs (None, None, message) is returned; when none
\* occurs the returned list holds as many events as have an arrival, and
\* they are the first of the fetched list
EventsPrefixReturned ==
    EventsReturned =>
        IF EventsException
        THEN result[1] = "None" /\ result[2] = "None" /\ result[3] # "None"
        ELSE /\ result[1] =
                    SubSeq(args.catalog, 1, Cardinality(WithArrivals))
             /\ result[3] = "None"

\* C23 (as claimed): when no exception occurs get_event_info returns exactly
\* the fetched events that have an arrival strictly inside (starttime,
\* endtime) at some station, whatever their position in the list; when an
\* exception occurs it returns (None, None, message).
C23_EventsWithArrivalsReturned ==
    EventsReturned =>
        IF EventsException
        THEN result[1] = "None" /\ result[2] = "None" /\ result[3] # "None"
        ELSE /\ result[1] = Filter(args.catalog, WithArrivals)
             /\ result[3] = "None"

\* the bindings of the passed table: a functionality (a name of the top
\* level, or a nested table with one of its values) and a key bound to it
Bindings ==
    {<<<<n>>, args[n].item>> : n \in {m \in DOMAIN args : ~args[m].dict}} \cup
    UNION {{<<NestedName(n, args[n].item[k]), k>> : k \in DOMAIN args[n].item} :
              n \in {m \in DOMAIN args : args[m].dict}}

\* one functionality sets or deletes a pick, the other a magnitude
PickAndMagnitude(f, g) ==
    LET picks == {<<"setPick">>, <<"setPickError">>, <<"delPick">>}
        mags  == {<<"setMagMin">>, <<"setMagMax">>, <<"delMagMinMax">>}
    IN  (f \in picks /\ g \in mags) \/ (f \in mags /\ g \in picks)

\* the same key is bound to two different functionalities that are not a
\* pick functionality and a magnitude functionality
Conflict ==
    \E b, c \in Bindings :
        b[2] = c[2] /\ b[1] # c[1] /\ ~PickAndMagnitude(b[1], c[1])

\* the check raises only when the table holds a conflict
RaisesOnlyOnConflict ==
    (fn = "check_keybinding_conflicts" /\ pc = "raised") => Conflict

\* C24 (as claimed): check_keybinding_conflicts raises whenever the same
\* key is bound to two different functionalities, nested tables included,
\* unless one is a pick and the other a magnitude functionality, and does
\* not raise when there is no such conflict.
C24_RaisesExactlyOnConflict ==
    (fn = "check_keybinding_conflicts" /\ pc \in {"done", "raised"}) =>
        (pc = "raised" <=> Conflict)

=============================================================================
